---- MODULE Spec2Model ----
(***************************************************************************)
(* Arbitrage path discovery: ArbitrageFinderService (depth-bounded DFS     *)
(* from the WETH anchor) feeding BatchProcessor (buffered, size- and       *)
(* timer-triggered transactional flushes into the SQLite store).           *)
(*                                                                         *)
(* Scheduling is Node's: one thread, run to completion.  A step of the main *)
(* task that awaits only already-settled promises (dfs, processArbitrage-  *)
(* Path, addPath) never gives the event loop a turn; timer callbacks and   *)
(* store completions run only while the main task waits on a store         *)
(* operation or has ended.                                                 *)
(***************************************************************************)
EXTENDS Integers, Sequences, FiniteSets, TLC

\* ---------------------------------------------------------------- inputs
\* String.prototype.toLowerCase over the strings of the model
toLowerCase(s) ==
  CASE s = "W" -> "w"
    [] s = "A" -> "a"
    [] s = "B" -> "b"
    [] s = "WETH" -> "weth"
    [] s = "WeTH" -> "weth"
    [] OTHER -> s

WETH_ADDRESS == toLowerCase("w")
Tokens == {"w", "a", "b"}
PoolAddrs == <<"p", "q", "r">>
PairAddrs == <<"p", "q", "r", "s">>
DepthBound == 3
MaxOpens == 3

\* pools per reserve query of the cleaner; the program uses 500
BATCH_SIZE == 2
MIN_DEPTH == 3
MIN_DEPTH_ENV == 4
PATHS_BATCH_SIZE == 3

VARIABLES
  pools,            \* rows of tbl_dex_pool, in table order
  tokens,           \* rows of tbl_dex_token (address, symbol), in table order
  tokenCache,       \* ArbitrageFinderService.tokenCache
  wethToken,        \* findArbitragePaths' wethToken
  error,            \* what findArbitragePaths threw
  minDepth,         \* ARBITRAGE_CONFIG.MIN_DEPTH
  maxDepth,         \* ARBITRAGE_CONFIG.MAX_DEPTH
  adjMap,           \* ArbitrageFinderService.adjMap
  pc,               \* position of findArbitragePaths
  stack,            \* call stack of dfs, innermost frame last
  pathBatch,        \* BatchProcessor.pathBatch
  isFlushingBatch,  \* BatchProcessor.isFlushingBatch
  flushInterval,    \* BatchProcessor.flushInterval is set (timer running)
  pathsFound,       \* ArbitrageFinderService.pathsFound
  fl,               \* per task, the flushBatches call it runs
  dbPaths,          \* committed rows of tbl_dex_arbitrage_path
  dbSteps,          \* committed rows of tbl_dex_arbitrage_step
  txOpen,           \* a transaction is open on the connection
  txPaths,          \* path rows written in the open transaction
  txSteps,          \* step rows written in the open transaction
  emitted,          \* history: the paths handed to addPath, in order
  outcome,          \* how findArbitragePaths ended
  lastTick,         \* history: what the last timer callback did
  failedBatch,      \* history: the buffer at the last failed flush
  undone,           \* history: rows the last failed flush had written
  connDb,           \* DatabaseConnection.db: 0 (null) or the connection it holds
  opened,           \* the connections open() has returned, each "open" or "closed"
  conn,             \* per caller, the connect() or close() call it runs
  tblToken,         \* committed rows of tbl_dex_token, as the services outside a run see them
  tblPool,          \* committed rows of tbl_dex_pool, as the services outside a run see them
  files,            \* the JSON files of DATA_CONFIG.JSON_FOLDER, in readdir order
  ld,               \* position of DataLoaderService.loadAllPoolData
  ldTx,             \* the transaction of insertPairsData: open, rows written
  cl                \* LiquidityCleaner: position, lists and token cache of a cleaning

runVars == <<pools, tokens, tokenCache, wethToken, error, minDepth, maxDepth, adjMap, pc, stack, pathBatch,
          isFlushingBatch, flushInterval, pathsFound, fl, dbPaths, dbSteps,
          txOpen, txPaths, txSteps, emitted, outcome, lastTick, failedBatch,
          undone>>

connVars == <<connDb, opened, conn>>

storeVars == <<tblToken, tblPool>>

loaderVars == <<files, ld, ldTx>>

\* the services that are not part of a discovery run
cleanerVars == <<cl>>

others == <<connVars, storeVars, loaderVars, cleanerVars>>

vars == <<runVars, others>>

Tasks == {"main", "timer"}

\* ------------------------------------------------------------ pure parts
PoolRow(address, e) == [pool_address |-> address, token0 |-> e[1], token1 |-> e[2]]

\* the pool tables with the first n addresses and both tokens drawn from `ends`
PoolTablesOfLen(addrs, n, ends) ==
  {[i \in 1..n |-> PoolRow(addrs[i], e[i])] : e \in [1..n -> ends]}

\* any table of up to three pools, self-referential pools included
PoolTables ==
  UNION {PoolTablesOfLen(PoolAddrs, n, Tokens \X Tokens) : n \in 0..Len(PoolAddrs)}

\* the tables of four pairs of distinct tokens (several pools may join the
\* same two tokens, as pairs of different exchanges do)
PairTables ==
  PoolTablesOfLen(PairAddrs, Len(PairAddrs),
                  {e \in Tokens \X Tokens : e[1] # e[2]})

TokenRow(address, symbol) == [address |-> address, symbol |-> symbol]

\* the token table of the runs over PoolTables and PairTables: every pool
\* token has a row, the anchor at its configured address
ListedTokens ==
  <<TokenRow("w", "WETH"), TokenRow("a", "A"), TokenRow("b", "B")>>

\* token tables for anchor resolution: up to two rows, the address (primary
\* key) in any letter case, the symbol in any letter case or absent ("")
AnchorAddresses == {"w", "W", "a"}
AnchorSymbols == {"WETH", "WeTH", "A", ""}
AnchorPoolAddrs == <<"p", "q">>

TokenTables ==
  UNION {{t \in [1..n -> {TokenRow(a, y) : a \in AnchorAddresses, y \in AnchorSymbols}] :
            \A i, j \in 1..n : t[i].address = t[j].address => i = j} : n \in 0..2}

AnchorPoolTables ==
  UNION {PoolTablesOfLen(AnchorPoolAddrs, n, AnchorAddresses \X AnchorAddresses) :
           n \in 0..Len(AnchorPoolAddrs)}

\* no token: what Array.prototype.find gives when nothing matches
NoToken == TokenRow("", "")

\* tokens.find: the first of the rows at the places `hits`, those that match
Find(rows, hits) ==
  IF hits = {} THEN NoToken
  ELSE rows[CHOOSE i \in hits : \A j \in hits : i <= j]

\* findWethToken line 311: the places of the rows that match by address
MatchesAddress(rows) ==
  {i \in DOMAIN rows : toLowerCase(rows[i].address) = WETH_ADDRESS}

\* findWethToken line 320: the places of the rows that match by symbol
MatchesSymbol(rows) ==
  {i \in DOMAIN rows : rows[i].symbol # "" /\ toLowerCase(rows[i].symbol) = "weth"}

\* mutant: when nothing matches, the first row of the table is taken
findAnyToken(rows) ==
  IF Find(rows, MatchesAddress(rows)) # NoToken
    THEN Find(rows, MatchesAddress(rows))
    ELSE IF Find(rows, MatchesSymbol(rows)) # NoToken
           THEN Find(rows, MatchesSymbol(rows))
           ELSE IF rows = <<>> THEN NoToken ELSE rows[1]

\* mutant: the symbol is tried first
findWethTokenBySymbolFirst(rows) ==
  IF Find(rows, MatchesSymbol(rows)) # NoToken
    THEN Find(rows, MatchesSymbol(rows))
    ELSE Find(rows, MatchesAddress(rows))

\* findWethToken: by address, else by symbol, else nothing (and it throws)
findWethToken(rows) ==
  IF Find(rows, MatchesAddress(rows)) # NoToken
    THEN Find(rows, MatchesAddress(rows))
    ELSE Find(rows, MatchesSymbol(rows))

\* loadDataFromDatabase lines 262-264
RECURSIVE buildTokenCache(_, _)
buildTokenCache(rows, m) ==
  IF rows = <<>> THEN m
  ELSE LET token == Head(rows)
       IN buildTokenCache(Tail(rows),
            IF token.address \in DOMAIN m
              THEN [m EXCEPT ![token.address] = token.symbol]
              ELSE m @@ (token.address :> token.symbol))

\* mutant: only the token0 -> token1 edge of each pool is added
RECURSIVE buildOneWayMap(_, _)
buildOneWayMap(ps, m) ==
  IF ps = <<>> THEN m
  ELSE LET pool == Head(ps)
           m0 == IF pool.token0 \in DOMAIN m THEN m ELSE m @@ (pool.token0 :> <<>>)
           m1 == IF pool.token1 \in DOMAIN m0 THEN m0 ELSE m0 @@ (pool.token1 :> <<>>)
           m2 == [m1 EXCEPT ![pool.token0] =
                    Append(@, [pool |-> pool.pool_address, toToken |-> pool.token1])]
       IN buildOneWayMap(Tail(ps), m2)

\* mutant: each edge leads to the token it starts from
RECURSIVE buildCrossedMap(_, _)
buildCrossedMap(ps, m) ==
  IF ps = <<>> THEN m
  ELSE LET pool == Head(ps)
           m0 == IF pool.token0 \in DOMAIN m THEN m ELSE m @@ (pool.token0 :> <<>>)
           m1 == IF pool.token1 \in DOMAIN m0 THEN m0 ELSE m0 @@ (pool.token1 :> <<>>)
           m2 == [m1 EXCEPT ![pool.token0] =
                    Append(@, [pool |-> pool.pool_address, toToken |-> pool.token0])]
           m3 == [m2 EXCEPT ![pool.token1] =
                    Append(@, [pool |-> pool.pool_address, toToken |-> pool.token1])]
       IN buildCrossedMap(Tail(ps), m3)

RECURSIVE buildAdjacencyMap(_, _)
buildAdjacencyMap(ps, m) ==
  IF ps = <<>> THEN m
  ELSE LET pool == Head(ps)
           m0 == IF pool.token0 \in DOMAIN m THEN m ELSE m @@ (pool.token0 :> <<>>)
           m1 == IF pool.token1 \in DOMAIN m0 THEN m0 ELSE m0 @@ (pool.token1 :> <<>>)
           m2 == [m1 EXCEPT ![pool.token0] =
                    Append(@, [pool |-> pool.pool_address, toToken |-> pool.token1])]
           m3 == [m2 EXCEPT ![pool.token1] =
                    Append(@, [pool |-> pool.pool_address, toToken |-> pool.token0])]
       IN buildAdjacencyMap(Tail(ps), m3)

\* mutant: a token without a cached symbol leaves its place empty
SymbolOrNothing(addr) ==
  IF addr \in DOMAIN tokenCache THEN tokenCache[addr] ELSE ""

\* processArbitragePath lines 390-397: the cached symbol, else the address
Symbol(addr) ==
  IF addr \in DOMAIN tokenCache /\ tokenCache[addr] # ""
    THEN tokenCache[addr]
    ELSE addr

\* mutants: the depth test off by one, either way
TooDeepByOne(pathTokens) == Len(pathTokens) > maxDepth + 1
TooDeepEarly(pathTokens) == Len(pathTokens) >= maxDepth

\* dfs line 360: the frame returns at once
TooDeep(pathTokens) == Len(pathTokens) > maxDepth

\* mutant: only a path of full depth closes; shorter returns go on
ClosesAtMaxDepth(toToken, start, newPathTokens) ==
  toToken = start /\ Len(newPathTokens) = maxDepth + 1

\* mutant: a long enough path is a cycle wherever it ends
ClosesAnywhere(toToken, start, newPathTokens) ==
  Len(newPathTokens) >= minDepth + 1

\* dfs line 374: the edge closes a cycle that is long enough
Closes(toToken, start, newPathTokens) ==
  toToken = start /\ Len(newPathTokens) >= minDepth + 1

\* mutant: a symbol that was not found is cached as the address
Memoized(cache, pathTokens) ==
  [addr \in DOMAIN cache \cup {pathTokens[i] : i \in DOMAIN pathTokens} |->
     IF addr \in DOMAIN cache /\ cache[addr] # "" THEN cache[addr] ELSE addr]

\* processArbitragePath lines 390-397: tokenCache.get only reads the cache
Looked(cache, pathTokens) == cache

\* processArbitragePath line 399: symbols.join('-')
RECURSIVE join(_, _)
join(symbols, separator) ==
  IF symbols = <<>> THEN ""
  ELSE IF Len(symbols) = 1 THEN symbols[1]
  ELSE symbols[1] \o separator \o join(Tail(symbols), separator)

\* processArbitragePath: the ArbitragePath object (n: its place in `emitted`)
ArbitragePath(pathTokens, pathPools, n) ==
  [tokens |-> pathTokens, pools |-> pathPools, length |-> Len(pathTokens) - 1,
   swapPath |-> join([i \in 1..Len(pathTokens) |-> Symbol(pathTokens[i])], "-"),
   n |-> n]

\* mutant: the steps carry a placeholder id, not the path row's lastID
generateStepsWithTempId(path, pathId) ==
  [i \in 1..(Len(path.tokens) - 1) |->
     [pathId |-> 0, stepIndex |-> i - 1, poolAddress |-> path.pools[i],
      fromToken |-> path.tokens[i], toToken |-> path.tokens[i + 1],
      isForward |-> TRUE, n |-> path.n]]

\* mutant: stepIndex counts from 1
generateStepsFromOne(path, pathId) ==
  [i \in 1..(Len(path.tokens) - 1) |->
     [pathId |-> pathId, stepIndex |-> i, poolAddress |-> path.pools[i],
      fromToken |-> path.tokens[i], toToken |-> path.tokens[i + 1],
      isForward |-> TRUE, n |-> path.n]]

\* generateStepsForPath: one row per edge, stepIndex from 0 (n: the place in
\* `emitted` of the path the row was derived from)
generateStepsForPath(path, pathId) ==
  [i \in 1..(Len(path.tokens) - 1) |->
     [pathId |-> pathId, stepIndex |-> i - 1, poolAddress |-> path.pools[i],
      fromToken |-> path.tokens[i], toToken |-> path.tokens[i + 1],
      isForward |-> TRUE, n |-> path.n]]

\* mutant: the final flush waits for a full buffer as addPath does
RemainingFull(batch) == Len(batch) >= PATHS_BATCH_SIZE

\* finalize line 65: there are buffered paths left
Remaining(batch) == Len(batch) > 0

\* mutant: the path is not counted
NoIncrement(count) == count

\* processArbitragePath line 409: pathsFound++
Increment(count) == count + 1

\* mutant: the threshold is passed, not reached
BatchOverfull(batch) == Len(batch) > PATHS_BATCH_SIZE

\* addPath line 48
BatchFull(batch) == Len(batch) >= PATHS_BATCH_SIZE

\* mutant: the guard is never taken
NoAcquire == FALSE

\* mutant: the guard is not released
KeepMutex == TRUE

\* flushBatches line 96 and line 146: the values written to the guard
AcquireMutex == TRUE
ReleaseMutex == FALSE

\* no path: the loop variable of a flush that is not inserting a path
NoPath == ArbitragePath(<<>>, <<>>, 0)

IdleFlush ==
  [pc |-> "idle", k |-> 0, path |-> NoPath, stepInserts |-> <<>>, si |-> 0,
   caller |-> "none", wrote |-> 0]

Frame(current, visitedPools, pathTokens, pathPools) ==
  [current |-> current, visitedPools |-> visitedPools,
   pathTokens |-> pathTokens, pathPools |-> pathPools, i |-> 0]

\* ------------------------------------------------------------------ Init
\* DatabaseConnection after getInstance: no connection; no caller in a call
Callers == {"c1", "c2", "c3"}
NoCall == [pc |-> "idle", got |-> 0, h |-> 0]

ConnStart ==
  /\ connDb = 0
  /\ opened = <<>>
  /\ conn = [c \in Callers |-> NoCall]

\* the pool and token tables before any file is loaded
StoreStart ==
  /\ tblToken = {}
  /\ tblPool = {}

NoTx == [open |-> FALSE, tokens |-> {}, pools |-> {}]

\* DataLoaderService with nothing to load
LoaderStart ==
  /\ files = <<>>
  /\ ld = [pc |-> "file", f |-> 1, p |-> 0, wrote |-> 0]
  /\ ldTx = NoTx

\* a LiquidityCleaner that was constructed and not called
CleanerStart ==
  cl = [pc |-> "idle", pools |-> <<>>, i |-> 1, liquidityInfos |-> <<>>, k |-> 1,
        enrichedPools |-> <<>>, tokenCache |-> <<>>, failed |-> {}]

RunStart ==
  /\ tokenCache = <<>>
  /\ wethToken = NoToken
  /\ error = "none"
  /\ adjMap = <<>>
  /\ pc = "start"
  /\ stack = <<>>
  /\ pathBatch = <<>>
  /\ isFlushingBatch = FALSE
  /\ flushInterval = FALSE
  /\ pathsFound = 0
  /\ fl = [t \in Tasks |-> IdleFlush]
  /\ dbPaths = <<>>
  /\ dbSteps = <<>>
  /\ txOpen = FALSE
  /\ txPaths = <<>>
  /\ txSteps = <<>>
  /\ emitted = <<>>
  /\ outcome = "running"
  /\ lastTick = "none"
  /\ failedBatch = <<>>
  /\ undone = 0

Start == RunStart /\ ConnStart /\ StoreStart /\ LoaderStart /\ CleanerStart

Init ==
  /\ pools \in PoolTables
  /\ tokens = ListedTokens
  /\ minDepth \in 1..DepthBound
  /\ maxDepth \in minDepth..DepthBound
  /\ Start

\* the shipped configurations (MIN_DEPTH = MAX_DEPTH = 3, or 4) over PairTables
InitPairs ==
  /\ pools \in PairTables
  /\ tokens = ListedTokens
  /\ minDepth \in {MIN_DEPTH, MIN_DEPTH_ENV}
  /\ maxDepth = minDepth
  /\ Start

\* anchor resolution: any small token table over any small pool table
InitAnchor ==
  /\ pools \in AnchorPoolTables
  /\ tokens \in TokenTables
  /\ minDepth = 1
  /\ maxDepth \in 1..(DepthBound - 1)
  /\ Start

\* ----------------------------------------------- findArbitragePaths, dfs
Top == stack[Len(stack)]

\* mutant: the edges are explored last to first
EdgesBackwards ==
  [i \in 1..Len(adjMap[Top.current]) |->
     adjMap[Top.current][Len(adjMap[Top.current]) + 1 - i]]

\* dfs lines 362, 365: the edges of the current token, in the stored order
Edges == adjMap[Top.current]
Edge == Edges[Top.i]
newPathTokens == Append(Top.pathTokens, Edge.toToken)
newPathPools == Append(Top.pathPools, Edge.pool)

\* The main task is running synchronous code (or a chain of settled awaits):
\* nothing else is scheduled until it reaches a store operation or ends.
\* dfs' first argument, the same in every frame
start == wethToken.address

MainRunning == pc \in {"start", "resolve", "init", "dfs", "finalize"}

\* flushBatches lines 88-105: the call goes on to BEGIN TRANSACTION
FlushProceeds(batch) == ~isFlushingBatch /\ Len(batch) # 0

\* initialize line 24: the timer callback asks for a flush
TimerGuard == ~isFlushingBatch /\ Len(pathBatch) > 0

StartedFlush(caller) ==
  [pc |-> "begin", k |-> 0, path |-> NoPath, stepInserts |-> <<>>, si |-> 0,
   caller |-> caller, wrote |-> 0]

\* mutant: the callee's used-pool set and path arrays are the caller's own
\* objects, extended in place
PopShared(s) ==
  IF Len(s) < 2 THEN SubSeq(s, 1, Len(s) - 1)
  ELSE [SubSeq(s, 1, Len(s) - 1) EXCEPT
          ![Len(s) - 1].visitedPools = s[Len(s)].visitedPools,
          ![Len(s) - 1].pathTokens = s[Len(s)].pathTokens,
          ![Len(s) - 1].pathPools = s[Len(s)].pathPools]

\* dfs returns: its frame is gone, its caller's locals are as they were
Pop(s) == SubSeq(s, 1, Len(s) - 1)

\* mutant: the loop stays at the edge it has handled
NoAdvance(s) == s

\* dfs line 365: the for-of loop moves on to the next edge
Advance(s) == [s EXCEPT ![Len(s)].i = @ + 1]

\* loadDataFromDatabase, buildAdjacencyMap
LoadAndBuild ==
  /\ pc = "start"
  /\ tokenCache' = buildTokenCache(tokens, <<>>)
  /\ adjMap' = buildAdjacencyMap(pools, <<>>)
  /\ pc' = "resolve"
  /\ UNCHANGED <<pools, tokens, wethToken, minDepth, maxDepth, stack, pathBatch, isFlushingBatch,
                 flushInterval, pathsFound, fl, dbPaths, dbSteps, txOpen,
                 txPaths, txSteps, emitted, outcome, error, lastTick, failedBatch, undone>>
  /\ UNCHANGED others

\* mutant: the connections are not looked at
AnyConnections(address) == TRUE

\* validateWethConnections line 342
HasConnections(address) ==
  address \in DOMAIN adjMap /\ Len(adjMap[address]) # 0

\* findWethToken, validateWethConnections
ResolveAnchor ==
  /\ pc = "resolve"
  /\ wethToken' = findWethToken(tokens)
  /\ IF wethToken' = NoToken
       THEN pc' = "failed" /\ outcome' = "thrown" /\ error' = "NotFound"
       ELSE IF HasConnections(wethToken'.address)
              THEN pc' = "init" /\ UNCHANGED <<outcome, error>>
              ELSE pc' = "failed" /\ outcome' = "thrown" /\ error' = "Disconnected"
  /\ UNCHANGED <<pools, tokens, minDepth, maxDepth, adjMap, tokenCache, stack, pathBatch,
                 isFlushingBatch, flushInterval, pathsFound, fl, dbPaths,
                 dbSteps, txOpen, txPaths, txSteps, emitted, lastTick,
                 failedBatch, undone>>
  /\ UNCHANGED others

\* BatchProcessor.initialize, then the first call of dfs
Initialize ==
  /\ pc = "init"
  /\ pathBatch' = <<>>
  /\ isFlushingBatch' = FALSE
  /\ flushInterval' = TRUE
  /\ stack' = <<Frame(wethToken.address, {}, <<wethToken.address>>, <<>>)>>
  /\ pc' = "dfs"
  /\ UNCHANGED <<pools, tokens, minDepth, maxDepth, adjMap, tokenCache, wethToken, pathsFound, fl, dbPaths,
                 dbSteps, txOpen, txPaths, txSteps, emitted, outcome, error, lastTick,
                 failedBatch, undone>>
  /\ UNCHANGED others

\* a dfs frame returns to its caller; the outermost returns to findArbitragePaths
Return ==
  /\ stack' = Pop(stack)
  /\ pc' = IF Len(stack) = 1 THEN "finalize" ELSE "dfs"

\* dfs lines 360-363
DfsEnter ==
  /\ pc = "dfs"
  /\ Top.i = 0
  /\ IF TooDeep(Top.pathTokens) \/ Top.current \notin DOMAIN adjMap
       THEN Return
       ELSE stack' = Advance(stack) /\ pc' = pc
  /\ UNCHANGED <<pools, tokens, minDepth, maxDepth, adjMap, tokenCache, wethToken, pathBatch, isFlushingBatch,
                 flushInterval, pathsFound, fl, dbPaths, dbSteps, txOpen,
                 txPaths, txSteps, emitted, outcome, error, lastTick, failedBatch, undone>>
  /\ UNCHANGED others

\* dfs line 365: the loop over the edges is over
DfsReturn ==
  /\ pc = "dfs"
  /\ Top.i >= 1
  /\ Top.i > Len(Edges)
  /\ Return
  /\ UNCHANGED <<pools, tokens, minDepth, maxDepth, adjMap, tokenCache, wethToken, pathBatch, isFlushingBatch,
                 flushInterval, pathsFound, fl, dbPaths, dbSteps, txOpen,
                 txPaths, txSteps, emitted, outcome, error, lastTick, failedBatch, undone>>
  /\ UNCHANGED others

\* dfs line 366
DfsSkip ==
  /\ pc = "dfs"
  /\ Top.i >= 1
  /\ Top.i <= Len(Edges)
  /\ Edge.pool \in Top.visitedPools
  /\ stack' = Advance(stack)
  /\ UNCHANGED <<pools, tokens, minDepth, maxDepth, adjMap, tokenCache, wethToken, pc, pathBatch,
                 isFlushingBatch, flushInterval, pathsFound, fl, dbPaths,
                 dbSteps, txOpen, txPaths, txSteps, emitted, outcome, error, lastTick,
                 failedBatch, undone>>
  /\ UNCHANGED others

\* dfs lines 368-378, the else branch: the recursive call
DfsCall ==
  /\ pc = "dfs"
  /\ Top.i >= 1
  /\ Top.i <= Len(Edges)
  /\ Edge.pool \notin Top.visitedPools
  /\ ~Closes(Edge.toToken, start, newPathTokens)
  /\ stack' = Append(Advance(stack),
                     Frame(Edge.toToken, Top.visitedPools \cup {Edge.pool},
                           newPathTokens, newPathPools))
  /\ UNCHANGED <<pools, tokens, minDepth, maxDepth, adjMap, tokenCache, wethToken, pc, pathBatch,
                 isFlushingBatch, flushInterval, pathsFound, fl, dbPaths,
                 dbSteps, txOpen, txPaths, txSteps, emitted, outcome, error, lastTick,
                 failedBatch, undone>>
  /\ UNCHANGED others

\* dfs lines 374-376, processArbitragePath, addPath
DfsEmit ==
  /\ pc = "dfs"
  /\ Top.i >= 1
  /\ Top.i <= Len(Edges)
  /\ Edge.pool \notin Top.visitedPools
  /\ Closes(Edge.toToken, start, newPathTokens)
  /\ LET path == ArbitragePath(newPathTokens, newPathPools, Len(emitted) + 1)
         batch == Append(pathBatch, path)
     IN /\ emitted' = Append(emitted, path)
        /\ pathBatch' = batch
        /\ tokenCache' = Looked(tokenCache, newPathTokens)
        /\ stack' = Advance(stack)
        /\ IF ~isFlushingBatch /\ BatchFull(batch) /\ FlushProceeds(batch)
             THEN /\ isFlushingBatch' = AcquireMutex
                  /\ fl' = [fl EXCEPT !["main"] = StartedFlush("addPath")]
                  /\ pc' = "flush"
                  /\ pathsFound' = pathsFound
             ELSE /\ pathsFound' = Increment(pathsFound)
                  /\ UNCHANGED <<isFlushingBatch, fl, pc>>
  /\ UNCHANGED <<pools, tokens, minDepth, maxDepth, adjMap, wethToken, flushInterval, dbPaths,
                 dbSteps, txOpen, txPaths, txSteps, outcome, error, lastTick,
                 failedBatch, undone>>
  /\ UNCHANGED others

\* BatchProcessor.finalize, and the return of findArbitragePaths
Finalize ==
  /\ pc = "finalize"
  /\ flushInterval' = FALSE
  /\ IF Remaining(pathBatch) /\ FlushProceeds(pathBatch)
       THEN /\ isFlushingBatch' = AcquireMutex
            /\ fl' = [fl EXCEPT !["main"] = StartedFlush("finalize")]
            /\ pc' = "flush"
            /\ outcome' = outcome
            /\ error' = error
       ELSE /\ pc' = "done"
            /\ outcome' = "returned"
            /\ error' = error
            /\ UNCHANGED <<isFlushingBatch, fl>>
  /\ UNCHANGED <<pools, tokens, minDepth, maxDepth, adjMap, tokenCache, wethToken, stack, pathBatch,
                 pathsFound, dbPaths, dbSteps, txOpen, txPaths, txSteps,
                 emitted, lastTick, failedBatch, undone>>
  /\ UNCHANGED others

\* the setInterval callback of initialize
TimerTick ==
  /\ flushInterval
  /\ ~MainRunning
  /\ IF TimerGuard /\ FlushProceeds(pathBatch) /\ fl["timer"].pc = "idle"
       THEN /\ isFlushingBatch' = AcquireMutex
            /\ fl' = [fl EXCEPT !["timer"] = StartedFlush("timer")]
            /\ lastTick' = "started"
       ELSE /\ lastTick' = "skipped"
            /\ UNCHANGED <<isFlushingBatch, fl>>
  /\ UNCHANGED <<pools, tokens, minDepth, maxDepth, adjMap, tokenCache, wethToken, pc, stack, pathBatch,
                 flushInterval, pathsFound, dbPaths, dbSteps, txOpen, txPaths,
                 txSteps, emitted, outcome, error, failedBatch, undone>>
  /\ UNCHANGED others


\* ------------------------------------------------- flushBatches, the store
\* A store operation of task t completes: the main task's while it waits in
\* flushBatches, the timer task's whenever the main task is not running.
Scheduled(t, at) ==
  /\ fl[t].pc = at
  /\ IF t = "main" THEN pc = "flush" ELSE ~MainRunning

\* mutant: the timer is left running
NoCleanup == TRUE

\* cleanup lines 77-80: the timer is cancelled (flushInterval = null)
Cleanup == FALSE

\* the continuation of flushBatches' caller: addPath and processArbitragePath,
\* finalize and findArbitragePaths' return, findArbitragePaths' catch with
\* cleanup, or the timer callback's catch
Resume(t, threw) ==
  IF t = "main"
    THEN IF threw
           THEN /\ pc' = "failed"
                /\ outcome' = "thrown"
                /\ error' = "StorageFailure"
                /\ flushInterval' = Cleanup
                /\ pathsFound' = pathsFound
           ELSE IF fl[t].caller = "addPath"
                  THEN /\ pc' = "dfs"
                       /\ pathsFound' = Increment(pathsFound)
                       /\ UNCHANGED <<outcome, error, flushInterval>>
                  ELSE /\ pc' = "done"
                       /\ outcome' = "returned"
                       /\ UNCHANGED <<error, pathsFound, flushInterval>>
    ELSE UNCHANGED <<pc, outcome, error, flushInterval, pathsFound>>

\* a statement fails: with "abort" the store has rolled the transaction back
Fails(r) ==
  IF r = "abort"
    THEN txOpen' = FALSE /\ txPaths' = <<>> /\ txSteps' = <<>>
    ELSE UNCHANGED <<txOpen, txPaths, txSteps>>

\* mutant: the buffer is walked last to first
AfterPathBackwards(t, k, stepInserts) ==
  IF k < Len(pathBatch)
    THEN [fl[t] EXCEPT !.pc = "insertPath", !.k = k + 1,
                       !.path = pathBatch[Len(pathBatch) - k],
                       !.stepInserts = stepInserts]
    ELSE [fl[t] EXCEPT !.pc = IF Len(stepInserts) > 0 THEN "prepare" ELSE "commit",
                       !.k = k + 1, !.path = NoPath, !.stepInserts = stepInserts]

\* flushBatches lines 114, 128: what follows the path at index k of the loop
AfterPath(t, k, stepInserts) ==
  IF k < Len(pathBatch)
    THEN [fl[t] EXCEPT !.pc = "insertPath", !.k = k + 1,
                       !.path = pathBatch[k + 1], !.stepInserts = stepInserts]
    ELSE [fl[t] EXCEPT !.pc = IF Len(stepInserts) > 0 THEN "prepare" ELSE "commit",
                       !.k = k + 1, !.path = NoPath, !.stepInserts = stepInserts]

\* mutant: the ids start again in every transaction
PathIdInFlush == Len(txPaths) + 1

\* the id AUTOINCREMENT gives the next path row
NextPathId == Len(dbPaths) + Len(txPaths) + 1

\* the row of tbl_dex_arbitrage_path (n: the path's place in `emitted`)
PathRow(path, id) ==
  [id |-> id, length |-> path.length, swap_path |-> path.swapPath, n |-> path.n]

\* BEGIN TRANSACTION (line 109) leaves a transaction open
Begun == TRUE

\* mutants: the catch block does not roll back, does not rethrow; the buffer
\* is not cleared
NoRollback(open, paths, steps) == [open |-> open, paths |-> paths, steps |-> steps]
Swallowed == FALSE
KeepBatch(batch) == batch

\* flushBatches line 143: the catch block rethrows
Rethrown == TRUE

\* mutant: ROLLBACK empties the table
Lost(rows) == <<>>

\* ROLLBACK (line 141): the committed rows stay
Durable(rows) == rows

\* ROLLBACK (line 141): the open transaction's rows are gone, none is open
Rollback(open, paths, steps) == [open |-> FALSE, paths |-> <<>>, steps |-> <<>>]

\* mutant: the catch block empties the buffer
Dropped(batch) == <<>>

\* flushBatches lines 140-143: the catch block leaves pathBatch as it is
Kept(batch) == batch

\* flushBatches line 138: pathBatch.length = 0
ClearBatch(batch) == <<>>

\* flushBatches line 109
DbBegin(t) ==
  /\ Scheduled(t, "begin")
  /\ \E r \in {"ok", "error"} :
       IF r = "ok" /\ ~txOpen
         THEN /\ txOpen' = Begun
              /\ fl' = [fl EXCEPT ![t] = AfterPath(t, 0, <<>>)]
         ELSE /\ fl' = [fl EXCEPT ![t].pc = "rollback"]
              /\ txOpen' = txOpen
  /\ UNCHANGED <<pools, tokens, minDepth, maxDepth, adjMap, tokenCache, wethToken, pc, stack, pathBatch,
                 isFlushingBatch, flushInterval, pathsFound, dbPaths, dbSteps,
                 txPaths, txSteps, emitted, outcome, error, lastTick, failedBatch, undone>>
  /\ UNCHANGED others

\* flushBatches lines 115-124
DbInsertPath(t) ==
  /\ Scheduled(t, "insertPath")
  /\ \E r \in {"ok", "error", "abort"} :
       IF r = "ok"
         THEN LET row == PathRow(fl[t].path, NextPathId)
                  steps == generateStepsForPath(fl[t].path, NextPathId)
              IN /\ IF txOpen
                      THEN txPaths' = Append(txPaths, row) /\ dbPaths' = dbPaths
                      ELSE dbPaths' = Append(dbPaths, row) /\ txPaths' = txPaths
                 /\ fl' = [fl EXCEPT ![t] =
                             [AfterPath(t, fl[t].k, fl[t].stepInserts \o steps)
                                EXCEPT !.wrote = @ + 1]]
                 /\ UNCHANGED <<txOpen, txSteps>>
         ELSE /\ fl' = [fl EXCEPT ![t].pc = "rollback"]
              /\ Fails(r)
              /\ dbPaths' = dbPaths
  /\ UNCHANGED <<pools, tokens, minDepth, maxDepth, adjMap, tokenCache, wethToken, pc, stack, pathBatch,
                 isFlushingBatch, flushInterval, pathsFound, dbSteps, emitted,
                 outcome, error, lastTick, failedBatch, undone>>
  /\ UNCHANGED others

\* insertStepsBatch line 182
DbPrepare(t) ==
  /\ Scheduled(t, "prepare")
  /\ \E r \in {"ok", "error"} :
       fl' = [fl EXCEPT ![t].pc = IF r = "ok" THEN "insertStep" ELSE "rollback",
                        ![t].si = 1]
  /\ UNCHANGED <<pools, tokens, minDepth, maxDepth, adjMap, tokenCache, wethToken, pc, stack, pathBatch,
                 isFlushingBatch, flushInterval, pathsFound, dbPaths, dbSteps,
                 txOpen, txPaths, txSteps, emitted, outcome, error, lastTick,
                 failedBatch, undone>>
  /\ UNCHANGED others

\* insertStepsBatch lines 188-190
DbInsertStep(t) ==
  /\ Scheduled(t, "insertStep")
  /\ \E r \in {"ok", "error", "abort"} :
       IF r = "ok"
         THEN LET row == fl[t].stepInserts[fl[t].si]
              IN /\ IF txOpen
                      THEN txSteps' = Append(txSteps, row) /\ dbSteps' = dbSteps
                      ELSE dbSteps' = Append(dbSteps, row) /\ txSteps' = txSteps
                 /\ fl' = [fl EXCEPT ![t].si = @ + 1,
                                     ![t].wrote = @ + 1,
                                     ![t].pc = IF fl[t].si < Len(fl[t].stepInserts)
                                                 THEN "insertStep"
                                                 ELSE "finalizeStmt"]
                 /\ UNCHANGED <<txOpen, txPaths>>
         ELSE /\ fl' = [fl EXCEPT ![t].pc = "rollback"]
              /\ Fails(r)
              /\ dbSteps' = dbSteps
  /\ UNCHANGED <<pools, tokens, minDepth, maxDepth, adjMap, tokenCache, wethToken, pc, stack, pathBatch,
                 isFlushingBatch, flushInterval, pathsFound, dbPaths, emitted,
                 outcome, error, lastTick, failedBatch, undone>>
  /\ UNCHANGED others

\* insertStepsBatch line 192
DbFinalizeStmt(t) ==
  /\ Scheduled(t, "finalizeStmt")
  /\ \E r \in {"ok", "error"} :
       fl' = [fl EXCEPT ![t].pc = IF r = "ok" THEN "commit" ELSE "rollback"]
  /\ UNCHANGED <<pools, tokens, minDepth, maxDepth, adjMap, tokenCache, wethToken, pc, stack, pathBatch,
                 isFlushingBatch, flushInterval, pathsFound, dbPaths, dbSteps,
                 txOpen, txPaths, txSteps, emitted, outcome, error, lastTick,
                 failedBatch, undone>>
  /\ UNCHANGED others

\* flushBatches lines 132-138, 146: COMMIT, clear the buffer, release the guard
DbCommit(t) ==
  /\ Scheduled(t, "commit")
  /\ \E r \in {"ok", "error", "abort"} :
       IF r = "ok" /\ txOpen
         THEN /\ dbPaths' = dbPaths \o txPaths
              /\ dbSteps' = dbSteps \o txSteps
              /\ txOpen' = FALSE
              /\ txPaths' = <<>>
              /\ txSteps' = <<>>
              /\ pathBatch' = ClearBatch(pathBatch)
              /\ isFlushingBatch' = ReleaseMutex
              /\ fl' = [fl EXCEPT ![t] = IdleFlush]
              /\ Resume(t, FALSE)
         ELSE /\ fl' = [fl EXCEPT ![t].pc = "rollback"]
              /\ Fails(r)
              /\ UNCHANGED <<dbPaths, dbSteps, pathBatch, isFlushingBatch, pc,
                             outcome, error, flushInterval, pathsFound>>
  /\ UNCHANGED <<pools, tokens, minDepth, maxDepth, adjMap, tokenCache, wethToken, stack, emitted, lastTick,
                 failedBatch, undone>>
  /\ UNCHANGED others

\* flushBatches lines 140-147: ROLLBACK, release the guard, rethrow
DbRollback(t) ==
  /\ Scheduled(t, "rollback")
  /\ LET tx == Rollback(txOpen, txPaths, txSteps)
     IN txOpen' = tx.open /\ txPaths' = tx.paths /\ txSteps' = tx.steps
  /\ undone' = fl[t].wrote
  /\ isFlushingBatch' = ReleaseMutex
  /\ fl' = [fl EXCEPT ![t] = IdleFlush]
  /\ failedBatch' = pathBatch
  /\ dbPaths' = Durable(dbPaths)
  /\ dbSteps' = Durable(dbSteps)
  /\ pathBatch' = Kept(pathBatch)
  /\ Resume(t, Rethrown)
  /\ UNCHANGED <<pools, tokens, minDepth, maxDepth, adjMap, tokenCache, wethToken, stack,
                 emitted, lastTick>>
  /\ UNCHANGED others

\* ------------------------------------------------------------------ Next
Next ==
  \/ LoadAndBuild
  \/ ResolveAnchor
  \/ Initialize
  \/ DfsEnter
  \/ DfsReturn
  \/ DfsSkip
  \/ DfsCall
  \/ DfsEmit
  \/ Finalize
  \/ TimerTick
  \/ \E t \in Tasks : DbBegin(t)
  \/ \E t \in Tasks : DbInsertPath(t)
  \/ \E t \in Tasks : DbPrepare(t)
  \/ \E t \in Tasks : DbInsertStep(t)
  \/ \E t \in Tasks : DbFinalizeStmt(t)
  \/ \E t \in Tasks : DbCommit(t)
  \/ \E t \in Tasks : DbRollback(t)

Spec == Init /\ [][Next]_vars

SpecPairs == InitPairs /\ [][Next]_vars

SpecAnchor == InitAnchor /\ [][Next]_vars

\* ------------------------------------------- BatchProcessor on its own
\* BatchProcessor is an exported class: initialize, addPath and finalize may be
\* called with any path. The pool cache holds pool p; q is an address the
\* cache does not hold.
AnyPaths ==
  {[tokens |-> <<"w", "w">>, pools |-> <<a>>] : a \in {"p", "q"}} \cup
  {[tokens |-> <<"w", "a", "w">>, pools |-> <<a, b>>] : a, b \in {"p", "q"}}

InitPersister ==
  /\ pools = <<PoolRow("p", <<"w", "a">>)>>
  /\ tokens = ListedTokens
  /\ minDepth = 1
  /\ maxDepth = 1
  /\ Start

\* initialize, called by the owner of the BatchProcessor
InitializeAlone ==
  /\ pc = "start"
  /\ pathBatch' = <<>>
  /\ isFlushingBatch' = FALSE
  /\ flushInterval' = TRUE
  /\ pc' = "dfs"
  /\ UNCHANGED <<pools, tokens, minDepth, maxDepth, adjMap, tokenCache, wethToken,
                 stack, pathsFound, fl, dbPaths, dbSteps, txOpen, txPaths, txSteps,
                 emitted, outcome, error, lastTick, failedBatch, undone>>
  /\ UNCHANGED others

\* addPath lines 39-52, called with any path
AddPath ==
  /\ pc = "dfs"
  /\ stack = <<>>
  /\ Len(emitted) <= PATHS_BATCH_SIZE
  /\ \E p \in AnyPaths :
       LET path == ArbitragePath(p.tokens, p.pools, Len(emitted) + 1)
           batch == Append(pathBatch, path)
       IN /\ emitted' = Append(emitted, path)
          /\ pathBatch' = batch
          /\ IF ~isFlushingBatch /\ BatchFull(batch) /\ FlushProceeds(batch)
               THEN /\ isFlushingBatch' = AcquireMutex
                    /\ fl' = [fl EXCEPT !["main"] = StartedFlush("addPath")]
                    /\ pc' = "flush"
                    /\ pathsFound' = pathsFound
               ELSE /\ pathsFound' = Increment(pathsFound)
                    /\ UNCHANGED <<isFlushingBatch, fl, pc>>
  /\ UNCHANGED <<pools, tokens, minDepth, maxDepth, adjMap, tokenCache, wethToken,
                 stack, flushInterval, dbPaths, dbSteps, txOpen, txPaths, txSteps,
                 outcome, error, lastTick, failedBatch, undone>>
  /\ UNCHANGED others

\* the owner has no more paths and goes on to finalize
CallFinalize ==
  /\ pc = "dfs"
  /\ stack = <<>>
  /\ pc' = "finalize"
  /\ UNCHANGED <<pools, tokens, minDepth, maxDepth, adjMap, tokenCache, wethToken,
                 stack, pathBatch, isFlushingBatch, flushInterval, pathsFound, fl,
                 dbPaths, dbSteps, txOpen, txPaths, txSteps, emitted, outcome, error,
                 lastTick, failedBatch, undone>>
  /\ UNCHANGED others

NextPersister ==
  \/ InitializeAlone
  \/ AddPath
  \/ CallFinalize
  \/ Finalize
  \/ TimerTick
  \/ \E t \in Tasks : DbBegin(t)
  \/ \E t \in Tasks : DbInsertPath(t)
  \/ \E t \in Tasks : DbPrepare(t)
  \/ \E t \in Tasks : DbInsertStep(t)
  \/ \E t \in Tasks : DbFinalizeStmt(t)
  \/ \E t \in Tasks : DbCommit(t)
  \/ \E t \in Tasks : DbRollback(t)

SpecPersister == InitPersister /\ [][NextPersister]_vars

\* ---------------------------------------------------- DatabaseConnection
\* a discovery run that is not started: the state of the run's variables
\* while another service is at work
RunIdle ==
  /\ pools = <<>>
  /\ tokens = <<>>
  /\ minDepth = MIN_DEPTH
  /\ maxDepth = MIN_DEPTH
  /\ RunStart

InitConn == RunIdle /\ ConnStart /\ StoreStart /\ LoaderStart /\ CleanerStart

\* the connections that are open
Open == {h \in DOMAIN opened : opened[h] = "open"}

\* the open() calls that have been issued and not settled
Opening == {c \in Callers : conn[c].pc = "opening"}

\* connect lines 27-30: the field is read; with a connection in it the call
\* returns that connection, else it issues open() and waits (line 32)
ConnectCall(c) ==
  /\ conn[c].pc = "idle"
  /\ IF connDb # 0
       THEN conn' = [conn EXCEPT ![c] = [pc |-> "done", got |-> connDb, h |-> 0]]
       ELSE /\ Len(opened) + Cardinality(Opening) < MaxOpens
            /\ conn' = [conn EXCEPT ![c] = [pc |-> "opening", got |-> 0, h |-> 0]]
  /\ UNCHANGED <<connDb, opened, runVars, storeVars, loaderVars, cleanerVars>>

\* connect lines 32-38: open() settles; the new connection is stored in the
\* field and returned, or open() rejects and connect throws
OpenSettles(c) ==
  /\ conn[c].pc = "opening"
  /\ \E r \in {"ok", "error"} :
       IF r = "ok"
         THEN /\ opened' = Append(opened, "open")
              /\ connDb' = Len(opened) + 1
              /\ conn' = [conn EXCEPT ![c] = [pc |-> "done", got |-> Len(opened) + 1, h |-> 0]]
         ELSE /\ conn' = [conn EXCEPT ![c] = [pc |-> "failed", got |-> 0, h |-> 0]]
              /\ UNCHANGED <<connDb, opened>>
  /\ UNCHANGED <<runVars, storeVars, loaderVars, cleanerVars>>

\* close lines 54-56: with a connection in the field, its close() is issued
CloseCall(c) ==
  /\ conn[c].pc = "idle"
  /\ IF connDb # 0
       THEN conn' = [conn EXCEPT ![c] = [pc |-> "closing", got |-> conn[c].got, h |-> connDb]]
       ELSE conn' = [conn EXCEPT ![c] = [pc |-> "closed", got |-> conn[c].got, h |-> 0]]
  /\ UNCHANGED <<connDb, opened, runVars, storeVars, loaderVars, cleanerVars>>

\* close lines 56-58: close() settles and the field is set to null; closing a
\* connection that is closed already rejects
CloseSettles(c) ==
  /\ conn[c].pc = "closing"
  /\ IF opened[conn[c].h] = "open"
       THEN /\ opened' = [opened EXCEPT ![conn[c].h] = "closed"]
            /\ connDb' = 0
            /\ conn' = [conn EXCEPT ![c].pc = "closed"]
       ELSE /\ conn' = [conn EXCEPT ![c].pc = "failed"]
            /\ UNCHANGED <<connDb, opened>>
  /\ UNCHANGED <<runVars, storeVars, loaderVars, cleanerVars>>

\* the caller is done with the call and may make another
NextCall(c) ==
  /\ conn[c].pc \in {"done", "failed", "closed"}
  /\ conn' = [conn EXCEPT ![c].pc = "idle", ![c].h = 0]
  /\ UNCHANGED <<connDb, opened, runVars, storeVars, loaderVars, cleanerVars>>

NextConn ==
  \/ \E c \in Callers : ConnectCall(c)
  \/ \E c \in Callers : OpenSettles(c)
  \/ \E c \in Callers : CloseCall(c)
  \/ \E c \in Callers : CloseSettles(c)
  \/ \E c \in Callers : NextCall(c)

SpecConn == InitConn /\ [][NextConn]_vars

(***************************************************************************)
(* DataLoaderService: the pairs of each JSON file are written to the       *)
(* token and pool tables inside one transaction per file.                  *)
(***************************************************************************)

\* Token objects the JSON files carry: id, symbol, decimals
FeedTokens ==
  { [id |-> "w", symbol |-> <<"W", "E", "T", "H">>, decimals |-> 18],
    [id |-> "a", symbol |-> <<"U", "S", "D", "C">>, decimals |-> 6],
    [id |-> "b", symbol |-> <<"t", "B", "T", "C">>, decimals |-> 8],
    [id |-> "c", symbol |-> <<"U", "S", "D", "T">>, decimals |-> 6] }

FeedToken(id) == CHOOSE t \in FeedTokens : t.id = id

\* Pair objects the JSON files carry
FeedPairs ==
  { [id |-> "p", token0 |-> FeedToken("w"), token1 |-> FeedToken("a")],
    [id |-> "q", token0 |-> FeedToken("a"), token1 |-> FeedToken("b")] }

PairLists ==
  {<<>>}
    \cup {<<x>> : x \in FeedPairs}
    \cup {<<x, y>> : x \in FeedPairs, y \in FeedPairs}

\* a file: the type its name gives, and json.data.pairs, which may be missing
FeedFiles ==
  [dexType : {"uniswapV2"}, hasPairs : {TRUE}, pairs : PairLists]
    \cup [dexType : {"uniswapV2"}, hasPairs : {FALSE}, pairs : {<<>>}]

\* results of one statement: done, failed with the transaction still open,
\* failed with the transaction aborted by the store
StmtResults == {"ok", "error", "abort"}

\* addresses a statement of the loader's connection sees in a table
Seen(committed, written) == {r.address : r \in committed \cup written}

\* INSERT OR IGNORE: the row is written unless its address is already there
InsertOrIgnore(committed, written, row) ==
  IF row.address \in Seen(committed, written) THEN written ELSE written \cup {row}

\* a failing statement leaves the transaction open, or the store aborts it
AfterFailure(tx, r) == IF r = "abort" THEN NoTx ELSE tx

\* a ROLLBACK that ends the transaction and keeps what it wrote
NotRolledBack(tx) == [tx EXCEPT !.open = FALSE]

\* ROLLBACK ends the transaction; none of its rows was written
RolledBack(tx) == NoTx

TokenRowOf(token, f) ==
  [address |-> token.id, symbol |-> token.symbol, decimal |-> token.decimals, file |-> f]

PoolRowOf(pair, dexType, f) ==
  [address |-> pair.id, dex_type |-> dexType, token0 |-> pair.token0.id,
   token1 |-> pair.token1.id, file |-> f]

InitLoader ==
  /\ RunIdle
  /\ ConnStart
  /\ StoreStart
  /\ files \in {<<x>> : x \in FeedFiles} \cup {<<x, y>> : x \in FeedFiles, y \in FeedFiles}
  /\ ld = [pc |-> "file", f |-> 1, p |-> 0, wrote |-> 0]
  /\ ldTx = NoTx
  /\ CleanerStart

\* loadAllPoolData takes the next file; loadPoolDataFromFile returns early
\* on a file without pairs
loadPoolDataFromFile ==
  /\ ld.pc = "file"
  /\ ld' = IF ld.f > Len(files) THEN [ld EXCEPT !.pc = "done"]
           ELSE IF ~files[ld.f].hasPairs THEN [ld EXCEPT !.f = ld.f + 1]
           ELSE [ld EXCEPT !.pc = "begin", !.wrote = 0]
  /\ UNCHANGED <<files, ldTx, storeVars, runVars, connVars, cleanerVars>>

\* BEGIN TRANSACTION, outside the try block: its failure is thrown as it is
LdBegin ==
  /\ ld.pc = "begin"
  /\ \E r \in {"ok", "error"} :
       IF r = "ok"
         THEN /\ ldTx' = [NoTx EXCEPT !.open = TRUE]
              /\ ld' = [ld EXCEPT !.pc = IF files[ld.f].pairs = <<>> THEN "commit" ELSE "token0",
                                  !.p = 1]
         ELSE /\ ldTx' = ldTx
              /\ ld' = [ld EXCEPT !.pc = "failed"]
  /\ UNCHANGED <<files, storeVars, runVars, connVars, cleanerVars>>

\* one of the two statements of insertTokens
insertTokens ==
  /\ ld.pc \in {"token0", "token1"}
  /\ LET pair == files[ld.f].pairs[ld.p]
         token == IF ld.pc = "token0" THEN pair.token0 ELSE pair.token1
         written == InsertOrIgnore(tblToken, ldTx.tokens, TokenRowOf(token, ld.f))
     IN \E r \in StmtResults :
          IF r = "ok"
            THEN /\ ldTx' = [ldTx EXCEPT !.tokens = written]
                 /\ ld' = [ld EXCEPT !.pc = IF ld.pc = "token0" THEN "token1" ELSE "pool",
                                     !.wrote = ld.wrote + Cardinality(written \ ldTx.tokens)]
            ELSE /\ ldTx' = AfterFailure(ldTx, r)
                 /\ ld' = [ld EXCEPT !.pc = "rollback"]
  /\ UNCHANGED <<files, storeVars, runVars, connVars, cleanerVars>>

insertPool ==
  /\ ld.pc = "pool"
  /\ LET file == files[ld.f]
         written == InsertOrIgnore(tblPool, ldTx.pools,
                                   PoolRowOf(file.pairs[ld.p], file.dexType, ld.f))
     IN \E r \in StmtResults :
          IF r = "ok"
            THEN /\ ldTx' = [ldTx EXCEPT !.pools = written]
                 /\ ld' = [ld EXCEPT !.pc = IF ld.p < Len(file.pairs) THEN "token0" ELSE "commit",
                                     !.p = IF ld.p < Len(file.pairs) THEN ld.p + 1 ELSE ld.p,
                                     !.wrote = ld.wrote + Cardinality(written \ ldTx.pools)]
            ELSE /\ ldTx' = AfterFailure(ldTx, r)
                 /\ ld' = [ld EXCEPT !.pc = "rollback"]
  /\ UNCHANGED <<files, storeVars, runVars, connVars, cleanerVars>>

\* COMMIT makes the rows of the file visible to every reader
LdCommit ==
  /\ ld.pc = "commit"
  /\ \E r \in StmtResults :
       IF r = "ok"
         THEN /\ tblToken' = tblToken \cup ldTx.tokens
              /\ tblPool' = tblPool \cup ldTx.pools
              /\ ldTx' = NoTx
              /\ ld' = [ld EXCEPT !.pc = "file", !.f = ld.f + 1]
         ELSE /\ ldTx' = AfterFailure(ldTx, r)
              /\ ld' = [ld EXCEPT !.pc = "rollback"]
              /\ UNCHANGED storeVars
  /\ UNCHANGED <<files, runVars, connVars, cleanerVars>>

\* the catch block: ROLLBACK, then the error goes up through
\* loadPoolDataFromFile and loadAllPoolData, which catch nothing
LdRollback ==
  /\ ld.pc = "rollback"
  /\ ldTx' = RolledBack(ldTx)
  /\ ld' = [ld EXCEPT !.pc = "failed"]
  /\ UNCHANGED <<files, storeVars, runVars, connVars, cleanerVars>>

NextLoader ==
  \/ loadPoolDataFromFile
  \/ LdBegin
  \/ insertTokens
  \/ insertPool
  \/ LdCommit
  \/ LdRollback

SpecLoader == InitLoader /\ [][NextLoader]_vars


(***************************************************************************)
(* LiquidityCleaner.cleanLowLiquidityPools: select the V2 pools, fetch     *)
(* their reserves in batches, attach token decimals and symbols, delete    *)
(* the pools with a balance under the threshold.                           *)
(***************************************************************************)

\* thresholds in tenths of a token unit: 0.3, 5 and 10000
MIN_BALANCE_THRESHOLD_BTC == 3

MIN_BALANCE_THRESHOLD_ETH == 50

MIN_BALANCE_THRESHOLD_OTHER == 100000

\* decimal and symbol of a token whose row is missing or could not be read
DEFAULT_DECIMAL == 18

UNKNOWN == <<"U", "N", "K", "N", "O", "W", "N">>

\* tbl_dex_token and tbl_dex_pool as cleaned: the pools in rowid order
CleanerTokens == {TokenRowOf(t, 1) : t \in FeedTokens}

CleanerPools ==
  << [address |-> "p", dex_type |-> "uniswapV2", token0 |-> "w", token1 |-> "a", file |-> 1],
     [address |-> "q", dex_type |-> "sushiswapV2", token0 |-> "b", token1 |-> "w", file |-> 1],
     [address |-> "u", dex_type |-> "uniswapV2", token0 |-> "a", token1 |-> "c", file |-> 1],
     [address |-> "v", dex_type |-> "uniswapV3", token0 |-> "w", token1 |-> "a", file |-> 1] >>

\* a reserve m * 10^e in the smallest unit of its token: 0, 5 * 10^10, 6 * 10^18
Balances == {[m |-> 0, e |-> 0], [m |-> 5, e |-> 10], [m |-> 6, e |-> 18]}

RECURSIVE Pow10(_)
Pow10(n) == IF n = 0 THEN 1 ELSE 10 * Pow10(n - 1)

Least(x, y) == IF x < y THEN x ELSE y

\* balanceToTokenUnits(balance, decimal) < threshold, the threshold in tenths;
\* beyond 10^7 the power of ten decides the comparison and is not computed
BelowThreshold(balance, decimal, threshold) ==
  LET k == balance.e - decimal + 1
  IN IF k >= 0 THEN balance.m * Pow10(Least(k, 7)) < threshold
               ELSE balance.m < threshold * Pow10(Least(0 - k, 4))

UpperCase ==
  [ch \in {"t", "w", "e", "h", "b", "c"} |->
     CASE ch = "t" -> "T" [] ch = "w" -> "W" [] ch = "e" -> "E"
       [] ch = "h" -> "H" [] ch = "b" -> "B" [] ch = "c" -> "C"]

toUpperCase(symbol) ==
  [i \in 1..Len(symbol) |->
     IF symbol[i] \in DOMAIN UpperCase THEN UpperCase[symbol[i]] ELSE symbol[i]]

includes(symbol, part) ==
  \E i \in 1..(Len(symbol) - Len(part) + 1) : SubSeq(symbol, i, i + Len(part) - 1) = part

isBtcToken(symbol) == includes(toUpperCase(symbol), <<"B", "T", "C">>)

isEthToken(symbol) == includes(toUpperCase(symbol), <<"E", "T", "H">>)

getMinBalanceThreshold(token0Symbol, token1Symbol) ==
  IF isBtcToken(token0Symbol) \/ isBtcToken(token1Symbol) THEN MIN_BALANCE_THRESHOLD_BTC
  ELSE IF isEthToken(token0Symbol) \/ isEthToken(token1Symbol) THEN MIN_BALANCE_THRESHOLD_ETH
  ELSE MIN_BALANCE_THRESHOLD_OTHER

\* the filter of findLowLiquidityPools
LowLiquidity(info) ==
  LET threshold == getMinBalanceThreshold(info.token0Symbol, info.token1Symbol)
  IN \/ BelowThreshold(info.token0Balance, info.token0Decimal, threshold)
     \/ BelowThreshold(info.token1Balance, info.token1Decimal, threshold)

findLowLiquidityPools(poolsWithTokenInfo) == SelectSeq(poolsWithTokenInfo, LowLiquidity)

DefaultTokenInfo(tokenAddress) ==
  [address |-> tokenAddress, decimal |-> DEFAULT_DECIMAL, symbol |-> UNKNOWN]

\* the TokenInfo getTokenInfo builds from the result r of its SELECT
ReadTokenInfo(tokenAddress, r) ==
  IF r = "ok" /\ \E row \in tblToken : row.address = tokenAddress
    THEN LET row == CHOOSE row \in tblToken : row.address = tokenAddress
         IN [address |-> tokenAddress, decimal |-> row.decimal, symbol |-> row.symbol]
    ELSE DefaultTokenInfo(tokenAddress)

Cache(cache, tokenAddress) ==
  IF \E i \in 1..Len(cache) : cache[i].address = tokenAddress
    THEN cache[CHOOSE i \in 1..Len(cache) : cache[i].address = tokenAddress]
    ELSE DefaultTokenInfo(tokenAddress)

InCache(cache, tokenAddress) ==
  \E i \in 1..Len(cache) : cache[i].address = tokenAddress

\* the token cache after getTokenInfo(tokenAddress) whose SELECT had result r
getTokenInfo(cache, tokenAddress, r) ==
  IF InCache(cache, tokenAddress) THEN cache
  ELSE Append(cache, ReadTokenInfo(tokenAddress, r))

InitCleaner ==
  /\ RunIdle
  /\ ConnStart
  /\ LoaderStart
  /\ tblToken = CleanerTokens
  /\ tblPool = {CleanerPools[n] : n \in 1..Len(CleanerPools)}
  /\ cl = [pc |-> "start", pools |-> <<>>, i |-> 1, liquidityInfos |-> <<>>, k |-> 1,
           enrichedPools |-> <<>>, tokenCache |-> <<>>, failed |-> {}]

IsV2(row) == row.dex_type \in {"uniswapV2", "sushiswapV2"}

\* step 1: the pools of the two V2 types, or the SELECT fails and the
\* error leaves cleanLowLiquidityPools
getAllPoolsWithTokens ==
  /\ cl.pc = "start"
  /\ \E r \in {"ok", "error"} :
       cl' = IF r = "ok"
               THEN [cl EXCEPT !.pc = "check",
                               !.pools = SelectSeq(CleanerPools,
                                           LAMBDA row : row \in tblPool /\ IsV2(row))]
               ELSE [cl EXCEPT !.pc = "failed"]
  /\ UNCHANGED <<storeVars, runVars, connVars, loaderVars>>

\* step 2, one batch of checkPoolsLiquidity: viewPair answers with the two
\* reserves of every pool of the batch, or fails and the batch is skipped
checkPoolsLiquidity ==
  /\ cl.pc = "check"
  /\ IF cl.i > Len(cl.pools)
       THEN cl' = [cl EXCEPT !.pc = "enrich"]
       ELSE LET last == Least(cl.i + BATCH_SIZE - 1, Len(cl.pools))
                batch == SubSeq(cl.pools, cl.i, last)
            IN \/ cl' = [cl EXCEPT !.i = cl.i + BATCH_SIZE,
                                   !.failed = cl.failed \cup {batch[j].address : j \in 1..Len(batch)}]
               \/ \E reservesArray \in [1..(2 * Len(batch)) -> Balances] :
                    cl' = [cl EXCEPT !.i = cl.i + BATCH_SIZE,
                                     !.liquidityInfos = cl.liquidityInfos \o
                                       [j \in 1..Len(batch) |->
                                          [poolAddress |-> batch[j].address,
                                           token0Balance |-> reservesArray[2 * j - 1],
                                           token1Balance |-> reservesArray[2 * j]]]]
  /\ UNCHANGED <<storeVars, runVars, connVars, loaderVars>>

\* step 3, one pool of enrichPoolsWithTokenInfo: the pool row is read, then
\* the info of its two tokens; a pool whose row cannot be read is left out
enrichPoolsWithTokenInfo ==
  /\ cl.pc = "enrich"
  /\ IF cl.k > Len(cl.liquidityInfos)
       THEN cl' = [cl EXCEPT !.pc = "delete"]
       ELSE LET info == cl.liquidityInfos[cl.k]
            IN \E r \in {"ok", "error"}, r0 \in {"ok", "error"}, r1 \in {"ok", "error"} :
                 IF r = "ok" /\ \E row \in tblPool : row.address = info.poolAddress
                   THEN LET poolData == CHOOSE row \in tblPool : row.address = info.poolAddress
                            cache0 == getTokenInfo(cl.tokenCache, poolData.token0, r0)
                            cache1 == getTokenInfo(cache0, poolData.token1, r1)
                            token0Info == Cache(cache0, poolData.token0)
                            token1Info == Cache(cache1, poolData.token1)
                        IN cl' = [cl EXCEPT
                                    !.k = cl.k + 1,
                                    !.tokenCache = cache1,
                                    !.enrichedPools = Append(cl.enrichedPools,
                                       [poolAddress |-> info.poolAddress,
                                        dexType |-> poolData.dex_type,
                                        token0 |-> poolData.token0,
                                        token1 |-> poolData.token1,
                                        token0Balance |-> info.token0Balance,
                                        token1Balance |-> info.token1Balance,
                                        token0Decimal |-> token0Info.decimal,
                                        token1Decimal |-> token1Info.decimal,
                                        token0Symbol |-> token0Info.symbol,
                                        token1Symbol |-> token1Info.symbol])]
                   ELSE cl' = [cl EXCEPT !.k = cl.k + 1]
  /\ UNCHANGED <<storeVars, runVars, connVars, loaderVars>>

\* steps 4 to 6: filter, then one DELETE for the addresses found, none when
\* the list is empty; a failing DELETE leaves cleanLowLiquidityPools as an error
deleteLowLiquidityPools ==
  /\ cl.pc = "delete"
  /\ LET lowLiquidityPools == findLowLiquidityPools(cl.enrichedPools)
         poolAddresses == {lowLiquidityPools[n].poolAddress : n \in 1..Len(lowLiquidityPools)}
     IN IF poolAddresses = {}
          THEN /\ cl' = [cl EXCEPT !.pc = "done"]
               /\ UNCHANGED tblPool
          ELSE \E r \in {"ok", "error"} :
                 IF r = "ok"
                   THEN /\ tblPool' = {row \in tblPool : row.address \notin poolAddresses}
                        /\ cl' = [cl EXCEPT !.pc = "done"]
                   ELSE /\ cl' = [cl EXCEPT !.pc = "failed"]
                        /\ UNCHANGED tblPool
  /\ UNCHANGED <<tblToken, runVars, connVars, loaderVars>>

NextCleaner ==
  \/ getAllPoolsWithTokens
  \/ checkPoolsLiquidity
  \/ enrichPoolsWithTokenInfo
  \/ deleteLowLiquidityPools

SpecCleaner == InitCleaner /\ [][NextCleaner]_vars


\* The event loop is fair: the main task goes on whenever it can run, a store
\* operation that was issued completes, and the interval timer fires whenever
\* the loop is free to run its callback.
Progress ==
  \/ LoadAndBuild \/ ResolveAnchor \/ Initialize
  \/ DfsEnter \/ DfsReturn \/ DfsSkip \/ DfsCall \/ DfsEmit
  \/ Finalize
  \/ \E t \in Tasks :
        \/ DbBegin(t) \/ DbInsertPath(t) \/ DbPrepare(t) \/ DbInsertStep(t)
        \/ DbFinalizeStmt(t) \/ DbCommit(t) \/ DbRollback(t)

SpecLive == Init /\ [][Next]_vars /\ WF_vars(Progress) /\ WF_vars(TimerTick)


\* ---------------------------------------------------------------- claims
InFlight(t) == fl[t].pc # "idle"

RowsOf(n) == {i \in DOMAIN dbPaths : dbPaths[i].n = n}

\* dfs has returned to findArbitragePaths (or was never called)
EnumerationDone == stack = <<>> /\ pc \notin {"start", "resolve", "init"}

Injective(seq) ==
  \A i, j \in DOMAIN seq : seq[i] = seq[j] => i = j

Ends(pool) == {pool.token0, pool.token1}

\* The closed walks of the pool table, stated from the table alone: n distinct
\* pools, consecutive tokens the two ends of the pool between them, first and
\* last token the anchor.
WalksOfLen(n) ==
  {w \in [tokens : [1..(n + 1) -> Tokens],
          pools : {ps \in [1..n -> DOMAIN pools] : Injective(ps)}] :
     /\ w.tokens[1] = WETH_ADDRESS
     /\ w.tokens[n + 1] = WETH_ADDRESS
     /\ \A i \in 1..n : {w.tokens[i], w.tokens[i + 1]} = Ends(pools[w.pools[i]])}

\* (n distinct pools need a table of n pools at least)
Walks == UNION {WalksOfLen(n) : n \in {m \in minDepth..maxDepth : m <= Len(pools)}}

Emitted(w) ==
  \E i \in DOMAIN emitted :
     /\ emitted[i].tokens = w.tokens
     /\ emitted[i].pools = [j \in DOMAIN w.pools |-> pools[w.pools[j]].pool_address]

\* the walk returns to the anchor after k edges, minDepth <= k < its length
ClosesEarly(w) ==
  \E k \in minDepth..(Len(w.pools) - 1) : w.tokens[k + 1] = WETH_ADDRESS

\* C1: when findArbitragePaths has returned, every path handed to addPath is
\* in the store as exactly one committed path row.
C1_ExactlyOnce ==
  outcome = "returned" =>
    \A n \in DOMAIN emitted : Cardinality(RowsOf(n)) = 1

C1_Witness ==
  /\ outcome = "returned"
  /\ Len(emitted) > PATHS_BATCH_SIZE
  /\ lastTick = "skipped"

\* C2: at most one flush is in flight, and it holds the guard; while the guard
\* is held no trigger starts a flush, and a timer callback leaves the buffer,
\* the flushes and the store as they are.
C2_SingleFlush ==
  /\ [](Cardinality({t \in Tasks : InFlight(t)}) <= 1)
  /\ []((\E t \in Tasks : InFlight(t)) => isFlushingBatch)
  /\ [][isFlushingBatch => \A t \in Tasks : ~InFlight(t) => ~InFlight(t)']_vars
  /\ [][(isFlushingBatch /\ TimerTick) =>
          UNCHANGED <<pathBatch, fl, dbPaths, dbSteps, txOpen, txPaths, txSteps>>]_vars

C2_Witness ==
  /\ isFlushingBatch
  /\ InFlight("main")
  /\ txOpen
  /\ lastTick = "skipped"

\* C3: when a flush ends in failure, no path row and no step row of its batch
\* is in the store, committed or in an open transaction.
C3_FailedFlushInvisible ==
  [][(\E t \in Tasks : fl[t].pc = "rollback" /\ ~InFlight(t)') =>
       /\ \A i \in DOMAIN pathBatch : RowsOf(pathBatch[i].n)' = {}
       /\ \A i \in DOMAIN dbSteps' :
            \E j \in DOMAIN dbPaths' :
               /\ dbPaths'[j].id = dbSteps'[i].pathId
               /\ \A b \in DOMAIN pathBatch : pathBatch[b].n # dbPaths'[j].n
       /\ ~txOpen' /\ txPaths' = <<>> /\ txSteps' = <<>>]_vars

C3_Witness ==
  /\ outcome = "thrown"
  /\ failedBatch # <<>>
  /\ undone > Len(failedBatch)

\* C4: once a flush has failed, findArbitragePaths has thrown, the timer is
\* cancelled and no flush is in flight or starts again.
C4_FailureEndsRun ==
  failedBatch # <<>> =>
    /\ outcome = "thrown"
    /\ pc = "failed"
    /\ ~flushInterval
    /\ \A t \in Tasks : ~InFlight(t)

C4_Witness ==
  /\ failedBatch # <<>>
  /\ outcome = "thrown"
  /\ Len(dbPaths) > 0

\* C5: every committed step row's pathId is the id of a committed path row.
C5_StepHasPath ==
  \A i \in DOMAIN dbSteps : \E j \in DOMAIN dbPaths : dbPaths[j].id = dbSteps[i].pathId

C5_Witness ==
  /\ Len(dbSteps) > 0
  /\ \E i, j \in DOMAIN dbSteps : dbSteps[i].pathId # dbSteps[j].pathId

\* C6: every emitted path has one token more than pools, starts and ends at
\* the anchor, and uses no pool twice.
C6_PathShape ==
  \A i \in DOMAIN emitted :
     LET path == emitted[i]
     IN /\ Len(path.tokens) = Len(path.pools) + 1
        /\ path.tokens[1] = WETH_ADDRESS
        /\ path.tokens[Len(path.tokens)] = WETH_ADDRESS
        /\ Injective(path.pools)

C6_Witness ==
  \E i \in DOMAIN emitted : Len(emitted[i].pools) = 3

\* C7: every emitted path has between MIN_DEPTH and MAX_DEPTH pools, and no
\* dfs frame holds a path of more than MAX_DEPTH edges.
C7_DepthBounds ==
  /\ \A i \in DOMAIN emitted :
        /\ emitted[i].length = Len(emitted[i].pools)
        /\ minDepth <= emitted[i].length
        /\ emitted[i].length <= maxDepth
  /\ \A i \in DOMAIN stack : Len(stack[i].pathPools) <= maxDepth

C7_Witness ==
  /\ \E i \in DOMAIN emitted : emitted[i].length = maxDepth
  /\ \E i \in DOMAIN stack : Len(stack[i].pathPools) = maxDepth
  /\ maxDepth < Len(pools)

\* C8, as stated: when enumeration is over every closed walk of minDepth to
\* maxDepth distinct pools has been emitted.
C8_AllWalksEmitted ==
  EnumerationDone => \A w \in Walks : Emitted(w)

\* C8, amended: every such walk that does not return to the anchor after
\* minDepth or more edges before its end has been emitted.
C8_WalksWithoutEarlyClosureEmitted ==
  EnumerationDone => \A w \in Walks : ~ClosesEarly(w) => Emitted(w)

C8_Witness ==
  /\ EnumerationDone
  /\ minDepth < maxDepth
  /\ \E w \in Walks : ClosesEarly(w)
  /\ \E w \in Walks : ~ClosesEarly(w) /\ Len(w.pools) = maxDepth

\* C9: in every emitted path the anchor is the first and the last token only.
C9_AnchorOnlyAtEnds ==
  \A i \in DOMAIN emitted :
     \A j \in 2..(Len(emitted[i].tokens) - 1) : emitted[i].tokens[j] # WETH_ADDRESS

\* the pool table is the triangle WETH-a (row x), a-b (row y), b-WETH (row z)
IsTriangle(a, b, x, y, z) ==
  /\ DOMAIN pools = {x, y, z}
  /\ x # y /\ y # z /\ x # z
  /\ a # b /\ a # WETH_ADDRESS /\ b # WETH_ADDRESS
  /\ Ends(pools[x]) = {WETH_ADDRESS, a}
  /\ Ends(pools[y]) = {a, b}
  /\ Ends(pools[z]) = {b, WETH_ADDRESS}

\* minDepth = maxDepth = 3, and enumeration is over
Depth3Done == minDepth = 3 /\ maxDepth = 3 /\ EnumerationDone

\* C10, as stated: the triangle with minDepth = maxDepth = 3 gives one path.
C10_TriangleOnePath ==
  Depth3Done =>
    \A a, b \in Tokens, x, y, z \in DOMAIN pools :
       IsTriangle(a, b, x, y, z) => Len(emitted) = 1

\* C10, amended: it gives two paths, the triangle walked each way round, the
\* one through the anchor's earlier pool row first; each has 3 distinct pools.
C10_TriangleTwoPaths ==
  Depth3Done =>
    \A a, b \in Tokens, x, y, z \in DOMAIN pools :
       (IsTriangle(a, b, x, y, z) /\ x < z) =>
         /\ Len(emitted) = 2
         /\ emitted[1].tokens = <<WETH_ADDRESS, a, b, WETH_ADDRESS>>
         /\ emitted[1].pools = <<PoolAddrs[x], PoolAddrs[y], PoolAddrs[z]>>
         /\ emitted[2].tokens = <<WETH_ADDRESS, b, a, WETH_ADDRESS>>
         /\ emitted[2].pools = <<PoolAddrs[z], PoolAddrs[y], PoolAddrs[x]>>

C10_Witness ==
  /\ outcome = "returned"
  /\ Depth3Done
  /\ \E a, b \in Tokens, x, y, z \in DOMAIN pools :
        IsTriangle(a, b, x, y, z) /\ y < x

\* ------------------------------------------------- claims on the anchor
\* findWethToken has run
Resolved == pc \notin {"start", "resolve"}

\* nothing of the persister has happened: not initialized, no timer, no
\* dfs frame, no path, no transaction, no row
NothingPersisted ==
  /\ ~flushInterval
  /\ lastTick = "none"
  /\ stack = <<>>
  /\ emitted = <<>>
  /\ pathBatch = <<>>
  /\ pathsFound = 0
  /\ \A t \in Tasks : ~InFlight(t)
  /\ ~txOpen /\ txPaths = <<>> /\ txSteps = <<>>
  /\ dbPaths = <<>> /\ dbSteps = <<>>

\* the letter cases of the configured address and of the anchor's symbol
AnchorAddressForms == {"w", "W"}
AnchorSymbolForms == {"weth", "WETH", "WeTH"}

AddressRows == {i \in DOMAIN tokens : tokens[i].address \in AnchorAddressForms}
SymbolRows == {i \in DOMAIN tokens : tokens[i].symbol \in AnchorSymbolForms}

\* no pool of the table has the resolved anchor as one of its two tokens
AnchorIsolated ==
  /\ wethToken # NoToken
  /\ \A i \in DOMAIN pools : wethToken.address \notin Ends(pools[i])

\* C11: when the resolved anchor has no adjacency edge, findArbitragePaths
\* has thrown Disconnected and nothing of the persister has happened.
C11_DisconnectedBeforePersistence ==
  (Resolved /\ AnchorIsolated) =>
    /\ pc = "failed"
    /\ outcome = "thrown"
    /\ error = "Disconnected"
    /\ NothingPersisted

C11_Witness ==
  /\ error = "Disconnected"
  /\ Len(pools) = 2
  /\ wethToken.address = "a"

\* C12: when no token row has the anchor's address or the symbol weth, in
\* any letter case, findArbitragePaths has thrown NotFound, dfs was never
\* called and nothing was emitted or written.
C12_NotFoundBeforeEnumeration ==
  (Resolved /\ AddressRows = {} /\ SymbolRows = {}) =>
    /\ pc = "failed"
    /\ outcome = "thrown"
    /\ error = "NotFound"
    /\ wethToken = NoToken
    /\ NothingPersisted

C12_Witness ==
  /\ error = "NotFound"
  /\ tokens = <<TokenRow("a", "A")>>
  /\ \E i \in DOMAIN pools : Ends(pools[i]) = {"a"}

\* C13: the anchor is the first row with the configured address in any
\* letter case; when there is none, the first row with the symbol weth in
\* any letter case; when there is none either, no token.
C13_AddressBeforeSymbol ==
  Resolved =>
    IF AddressRows # {}
      THEN \E i \in AddressRows :
              wethToken = tokens[i] /\ \A j \in AddressRows : i <= j
      ELSE IF SymbolRows # {}
             THEN \E i \in SymbolRows :
                     wethToken = tokens[i] /\ \A j \in SymbolRows : i <= j
             ELSE wethToken = NoToken

C13_Witness ==
  /\ Resolved
  /\ Len(tokens) = 2
  /\ tokens[1].symbol = "WeTH"
  /\ tokens[1].address = "a"
  /\ tokens[2].address = "W"
  /\ wethToken = tokens[2]

\* ------------------------------------------------ claims on the graph
\* buildAdjacencyMap has run
Built == pc # "start"

\* the directed edges of adjMap: the key and the place in the key's list
AllEdges == {<<k, i>> \in (DOMAIN adjMap) \X (1..(2 * Len(pools))) : i <= Len(adjMap[k])}

EdgesVia(address) == {e \in AllEdges : adjMap[e[1]][e[2]].pool = address}

\* adjMap has 2 x (number of pools) edges, two via each pool; both tokens of
\* every pool are keys; with every edge its reverse via the same pool is there
TwoEdgesPerPool ==
    /\ Cardinality(AllEdges) = 2 * Len(pools)
    /\ \A i \in DOMAIN pools :
          /\ Cardinality(EdgesVia(pools[i].pool_address)) = 2
          /\ pools[i].token0 \in DOMAIN adjMap
          /\ pools[i].token1 \in DOMAIN adjMap
    /\ \A e \in AllEdges :
          LET edge == adjMap[e[1]][e[2]]
          IN /\ edge.toToken \in DOMAIN adjMap
             /\ \E j \in DOMAIN adjMap[edge.toToken] :
                   adjMap[edge.toToken][j] = [pool |-> edge.pool, toToken |-> e[1]]

\* C14: the map buildAdjacencyMap builds has 2 x (number of pools) edges, two
\* via each pool, every pool token as a key and every edge's reverse; once
\* built it does not change.
C14_TwoEdgesPerPool ==
  /\ [][~Built => TwoEdgesPerPool']_vars
  /\ [][Built => adjMap' = adjMap]_vars

C14_Witness ==
  /\ Built
  /\ Len(pools) = 3
  /\ pools[1].token0 = pools[1].token1
  /\ Ends(pools[2]) = Ends(pools[3])
  /\ pools[2].token0 # pools[2].token1

\* ------------------------------------------- claims on the end of a run
\* findArbitragePaths has returned or thrown
Ended == outcome # "running"

\* C15: when findArbitragePaths has returned or thrown the timer is not
\* running, and from then on no flush starts.
C15_TimerCancelledAtEnd ==
  /\ [](Ended => ~flushInterval)
  /\ [][Ended => (~flushInterval' /\ \A t \in Tasks : ~InFlight(t)')]_vars

C15_Witness ==
  /\ outcome = "thrown"
  /\ error = "StorageFailure"
  /\ stack # <<>>
  /\ lastTick = "skipped"
  /\ Len(dbPaths) > 0

\* C16: the final flush runs with the timer cancelled; when findArbitragePaths
\* has returned the buffer is empty, no flush is in flight, no transaction is
\* open and every emitted path is committed.
C16_DrainedAtReturn ==
  /\ (InFlight("main") /\ fl["main"].caller = "finalize") => ~flushInterval
  /\ outcome = "returned" =>
        /\ pathBatch = <<>>
        /\ ~isFlushingBatch
        /\ \A t \in Tasks : ~InFlight(t)
        /\ ~txOpen
        /\ Len(dbPaths) = Len(emitted)

C16_Witness ==
  /\ outcome = "returned"
  /\ Len(emitted) = PATHS_BATCH_SIZE + 1
  /\ dbPaths[Len(dbPaths)].n = Len(emitted)

\* C17: when findArbitragePaths has returned, the count it returns is the
\* number of committed path rows.
C17_CountIsCommitted ==
  outcome = "returned" => pathsFound = Len(dbPaths)

C17_Witness ==
  /\ outcome = "returned"
  /\ pathsFound > PATHS_BATCH_SIZE
  /\ lastTick = "skipped"

\* ---------------------------------------------- claims on the step rows
\* the committed step rows of path id, read back ordered by stepIndex
StepRowsOf(id) == {i \in DOMAIN dbSteps : dbSteps[i].pathId = id}

ReadBack(id) ==
  [k \in 1..Cardinality(StepRowsOf(id)) |->
     dbSteps[CHOOSE i \in StepRowsOf(id) : dbSteps[i].stepIndex = k - 1]]

\* for every committed path the step rows read back by stepIndex are `length`
\* rows indexed 0..length-1; their fromToken and toToken values give back the
\* token sequence and their poolAddress values the pool sequence; they are
\* the rows generateStepsForPath derives again from the path
StepsRoundTrip ==
  \A j \in DOMAIN dbPaths :
     LET path == emitted[dbPaths[j].n]
         id == dbPaths[j].id
         rows == ReadBack(id)
     IN /\ Cardinality(StepRowsOf(id)) = path.length
        /\ {dbSteps[i].stepIndex : i \in StepRowsOf(id)} = 0..(path.length - 1)
        /\ <<rows[1].fromToken>> \o [k \in 1..Len(rows) |-> rows[k].toToken] = path.tokens
        /\ [k \in 1..Len(rows) |-> rows[k].poolAddress] = path.pools
        /\ \A k \in 1..(Len(rows) - 1) : rows[k].toToken = rows[k + 1].fromToken
        /\ rows = generateStepsForPath(path, id)

\* C18: whenever rows are committed, every committed path's step rows read
\* back by stepIndex give back its token and pool sequences and are the rows
\* derived again from the path.
C18_StepsRoundTrip ==
  [][(dbPaths' # dbPaths \/ dbSteps' # dbSteps) => StepsRoundTrip']_vars

C18_Witness ==
  /\ Len(dbPaths) >= 2
  /\ \E j \in DOMAIN dbPaths :
        /\ dbPaths[j].length = 3
        /\ Cardinality({t \in Tokens : \E k \in 1..4 : emitted[dbPaths[j].n].tokens[k] = t}) = 3

\* the row of tbl_dex_pool with the given address
PoolAt(address) == pools[CHOOSE i \in DOMAIN pools : pools[i].pool_address = address]

\* C19: a committed step is flagged forward exactly when its fromToken is
\* token0 of its pool.
C19_ForwardIffFromToken0 ==
  \A i \in DOMAIN dbSteps :
     dbSteps[i].isForward <=> (dbSteps[i].fromToken = PoolAt(dbSteps[i].poolAddress).token0)

\* the path and step rows written so far, committed or in the open transaction
WrittenPaths == dbPaths \o txPaths
WrittenSteps == dbSteps \o txSteps

\* C20: no two path rows have the same id; every step row carries the id of
\* the row of the path it was derived from, so no other path's id; and every
\* committed path has all its step rows.
C20_PathIdOwnsSteps ==
  /\ \A i, j \in DOMAIN WrittenPaths :
        WrittenPaths[i].id = WrittenPaths[j].id => i = j
  /\ \A i \in DOMAIN WrittenSteps :
        \E j \in DOMAIN WrittenPaths :
           /\ WrittenPaths[j].n = WrittenSteps[i].n
           /\ WrittenPaths[j].id = WrittenSteps[i].pathId
  /\ \A j \in DOMAIN dbPaths :
        Cardinality({i \in DOMAIN dbSteps : dbSteps[i].n = dbPaths[j].n
                                               /\ dbSteps[i].pathId = dbPaths[j].id})
          = dbPaths[j].length

C20_Witness ==
  /\ Len(dbPaths) >= PATHS_BATCH_SIZE
  /\ txOpen
  /\ txSteps # <<>>
  /\ \E i \in DOMAIN txSteps : \E j \in DOMAIN dbSteps :
        /\ txSteps[i].fromToken = dbSteps[j].fromToken
        /\ txSteps[i].toToken = dbSteps[j].toToken
        /\ txSteps[i].poolAddress = dbSteps[j].poolAddress
        /\ txSteps[i].stepIndex = dbSteps[j].stepIndex

\* ---------------------------------------------- claims on the flushes
\* a flush commits at this step
Commits == dbPaths' # dbPaths

\* the places in `emitted` of the paths of a sequence of paths or path rows
Places(rows) == {rows[i].n : i \in DOMAIN rows}

\* the ids of the rows are strictly increasing along the table
IdsIncrease(rows) ==
  \A i, j \in DOMAIN rows : i < j => rows[i].id < rows[j].id

\* C21: a flush started by addPath commits exactly PATHS_BATCH_SIZE paths, the
\* flush started by finalize the rest, (number of emitted paths) modulo
\* PATHS_BATCH_SIZE; the ids of the path rows are distinct and increase in
\* the order the store assigned them.
C21_FlushSizes ==
  /\ [][Commits =>
          /\ dbPaths' = dbPaths \o txPaths
          /\ fl["main"].caller = "addPath" => Len(txPaths) = PATHS_BATCH_SIZE
          /\ fl["main"].caller = "finalize" =>
                /\ Len(txPaths) = Len(emitted) % PATHS_BATCH_SIZE
                /\ Len(txPaths) > 0]_vars
  /\ [](IdsIncrease(WrittenPaths))

C21_Witness ==
  /\ outcome = "returned"
  /\ Len(emitted) = PATHS_BATCH_SIZE + 1
  /\ Len(dbPaths) = PATHS_BATCH_SIZE + 1
  /\ dbPaths[PATHS_BATCH_SIZE].id < dbPaths[PATHS_BATCH_SIZE + 1].id

\* C22: no step removes or changes a committed path row or step row, a
\* failing flush's rollback included.
C22_CommittedRowsStay ==
  [][/\ Len(dbPaths') >= Len(dbPaths)
     /\ Len(dbSteps') >= Len(dbSteps)
     /\ \A i \in DOMAIN dbPaths : dbPaths'[i] = dbPaths[i]
     /\ \A i \in DOMAIN dbSteps : dbSteps'[i] = dbSteps[i]]_vars

C22_Witness ==
  /\ outcome = "thrown"
  /\ error = "StorageFailure"
  /\ undone > 0
  /\ Len(dbPaths) = PATHS_BATCH_SIZE
  /\ Len(dbSteps) >= PATHS_BATCH_SIZE

\* C23: the path rows, committed or written in the open transaction, are in
\* the order their paths were emitted and their ids increase in that order;
\* every path emitted before a written path is written too.
C23_EmissionOrder ==
  /\ \A i, j \in DOMAIN WrittenPaths :
        i < j => /\ WrittenPaths[i].n < WrittenPaths[j].n
                 /\ WrittenPaths[i].id < WrittenPaths[j].id
  /\ \A i \in DOMAIN dbPaths : \A m \in 1..dbPaths[i].n : RowsOf(m) # {}

C23_Witness ==
  /\ Len(dbPaths) >= PATHS_BATCH_SIZE
  /\ Len(txPaths) >= 2
  /\ Len(pathBatch) > Len(txPaths)

\* no timer callback has started a flush
NoTimerFlush == lastTick # "started" /\ ~InFlight("timer")

\* C24: whenever enumeration is running with a non-empty buffer and no flush
\* in progress, a timer callback eventually starts a flush.
C24_TimerFlushesBuffered ==
  (pc = "dfs" /\ Len(pathBatch) > 0 /\ ~isFlushingBatch) ~> (lastTick = "started")

C26_StopsAtClosure ==
  \A i \in DOMAIN emitted :
     \A k \in minDepth..(emitted[i].length - 1) : emitted[i].tokens[k + 1] # start

C26_Witness ==
  /\ EnumerationDone
  /\ minDepth < maxDepth
  /\ \E i \in DOMAIN emitted : emitted[i].length < maxDepth
  /\ \E w \in Walks : ClosesEarly(w) /\ ~Emitted(w)

\* C27: no two emitted paths have the same token sequence and the same pool
\* sequence.
C27_NoDuplicatePaths ==
  \A i, j \in DOMAIN emitted :
     (emitted[i].tokens = emitted[j].tokens /\ emitted[i].pools = emitted[j].pools)
       => i = j

\* Depth-first pre-order, stated as a function of the adjacency map alone: the
\* cycles found below `current`, those through an earlier edge before those
\* through a later one, a cycle closed by an edge at the place of that edge.
RECURSIVE PreOrderFrom(_, _, _, _, _)
PreOrderFrom(current, used, toks, pls, i) ==
  IF Len(toks) > maxDepth \/ current \notin DOMAIN adjMap THEN <<>>
  ELSE IF i > Len(adjMap[current]) THEN <<>>
  ELSE LET e == adjMap[current][i]
           ts == Append(toks, e.toToken)
           ps == Append(pls, e.pool)
           here == IF e.pool \in used THEN <<>>
                   ELSE IF e.toToken = start /\ Len(ts) >= minDepth + 1
                     THEN <<[tokens |-> ts, pools |-> ps]>>
                     ELSE PreOrderFrom(e.toToken, used \cup {e.pool}, ts, ps, 1)
       IN here \o PreOrderFrom(current, used, toks, pls, i + 1)

PreOrder == PreOrderFrom(start, {}, <<start>>, <<>>, 1)

EmittedPaths ==
  [i \in DOMAIN emitted |-> [tokens |-> emitted[i].tokens, pools |-> emitted[i].pools]]

\* C28: the emitted paths are, in order, the cycles of the adjacency map in
\* depth-first pre-order with each token's edges taken in the stored order: at
\* every emission a prefix of that sequence, and the whole of it when the run
\* returns. The sequence is a function of the pool table, the anchor and the
\* bounds, so two runs over the same input emit the same paths in the same order.
C28_PreOrder ==
  /\ [][emitted' # emitted =>
          /\ Len(emitted') <= Len(PreOrder')
          /\ EmittedPaths' = SubSeq(PreOrder', 1, Len(emitted'))]_vars
  /\ [][(outcome # "returned" /\ outcome' = "returned") =>
          EmittedPaths' = PreOrder']_vars

C28_Witness ==
  /\ outcome = "returned"
  /\ Len(emitted) > PATHS_BATCH_SIZE
  /\ Len(adjMap[start]) >= 2
  /\ emitted[1].pools[1] # emitted[Len(emitted)].pools[1]
  /\ \E i \in DOMAIN emitted : emitted[i].length # emitted[1].length

\* the arguments of the dfs call of a frame
Locals(f) == <<f.current, f.visitedPools, f.pathTokens, f.pathPools>>

\* C29: no step changes the used-pool set, the token sequence or the pool
\* sequence of a dfs call that is still active; in particular a caller finds
\* them on return as they were when it made the call, and explores its next
\* edge from the same path state.
C29_CallerStateRestored ==
  [][\A k \in DOMAIN stack \cap DOMAIN stack' :
        Locals(stack'[k]) = Locals(stack[k])]_vars

C29_Witness ==
  /\ pc = "dfs"
  /\ Len(stack) = 2
  /\ minDepth = 3
  /\ Top.i = 2
  /\ Len(Edges) >= 2
  /\ Edges[1].pool \notin Top.visitedPools
  /\ Edges[2].pool \notin Top.visitedPools
  /\ Len(emitted) > 0

\* C30: the step that ends a flush attempt (COMMIT done, or the catch block
\* left after ROLLBACK, whether a transaction was open for it or not) leaves
\* the guard released; the guard is held only while an attempt is in flight.
C30_GuardReleased ==
  /\ [][\A t \in Tasks : (InFlight(t) /\ ~InFlight(t)') => ~isFlushingBatch']_vars
  /\ [](isFlushingBatch => \E t \in Tasks : InFlight(t))

C30_Witness ==
  /\ outcome = "thrown"
  /\ error = "StorageFailure"
  /\ ~isFlushingBatch
  /\ ~InFlight("main")
  /\ failedBatch # <<>>
  /\ undone = 0
  /\ Len(dbPaths) = PATHS_BATCH_SIZE
  /\ Len(pathBatch) = 1

\* C31: the step at which a statement of a flush fails and the rollback that
\* follows leave the buffer as it is, with the paths of the failed flush in
\* their order; the buffer loses paths only at a successful COMMIT, and then
\* all of them.
C31_FailedFlushKeepsBuffer ==
  /\ [][(\E t \in Tasks : InFlight(t) /\ fl'[t].pc = "rollback") =>
          pathBatch' = pathBatch]_vars
  /\ [][(\E t \in Tasks : fl[t].pc = "rollback" /\ ~InFlight(t)') =>
          (pathBatch' = pathBatch /\ pathBatch' # <<>>)]_vars
  /\ [][Len(pathBatch') < Len(pathBatch) =>
          (dbPaths' = dbPaths \o txPaths /\ txPaths # <<>> /\ pathBatch' = <<>>)]_vars

C31_Witness ==
  /\ outcome = "thrown"
  /\ pathBatch = failedBatch
  /\ Len(pathBatch) = PATHS_BATCH_SIZE
  /\ Len(dbPaths) = PATHS_BATCH_SIZE
  /\ undone > PATHS_BATCH_SIZE
  /\ \A i \in DOMAIN pathBatch : pathBatch[i].n = PATHS_BATCH_SIZE + i

\* the rows of the pool cache stored under an address
Cached(address) == {k \in DOMAIN pools : pools[k].pool_address = address}

\* SwapUtils.canSwap over the rows of the pool cache
canSwap(token0, token1, pool) ==
  \/ (token0 = pool.token0 /\ token1 = pool.token1)
  \/ (token0 = pool.token1 /\ token1 = pool.token0)

\* C32: every step of every emitted path goes through a pool of the pool
\* cache, between the two tokens of that pool in one order or the other.
C32_StepsUseCachedPools ==
  [][emitted' # emitted =>
       \A i \in DOMAIN emitted' :
          \A j \in DOMAIN emitted'[i].pools :
             /\ Cached(emitted'[i].pools[j]) # {}
             /\ \A k \in Cached(emitted'[i].pools[j]) :
                   canSwap(emitted'[i].tokens[j], emitted'[i].tokens[j + 1], pools[k])]_vars

C32_Witness ==
  /\ EnumerationDone
  /\ \E i \in DOMAIN emitted :
        /\ emitted[i].length = 3
        /\ \E k \in Cached(emitted[i].pools[1]) : pools[k].token1 = emitted[i].tokens[1]
        /\ \E k \in Cached(emitted[i].pools[2]) :
              pools[k].token0 = emitted[i].tokens[2] /\ pools[k].token0 # pools[k].token1

\* the symbol the token table gives an address: that of its row, if it has a
\* row and the row has a symbol
Listed(addr) == {i \in DOMAIN tokens : tokens[i].address = addr /\ tokens[i].symbol # ""}

Named(addr) == IF Listed(addr) = {} THEN addr ELSE tokens[CHOOSE i \in Listed(addr) : TRUE].symbol

\* C34: a closing path with a token that has no symbol is emitted and buffered
\* as any other; its swap path is the '-' joined list, in token order, of each
\* token's symbol where the token table has one and of its address where it has
\* none, and the emission raises no error.
C34_MissingSymbolUsesAddress ==
  [][emitted' # emitted =>
       LET path == emitted'[Len(emitted')]
       IN /\ emitted' = Append(emitted, path)
          /\ pathBatch' = Append(pathBatch, path)
          /\ path.swapPath = join([i \in DOMAIN path.tokens |-> Named(path.tokens[i])], "-")
          /\ error' = error
          /\ outcome' = outcome]_vars

C34_Witness ==
  /\ outcome = "returned"
  /\ \E i \in DOMAIN dbPaths : dbPaths[i].swap_path = "WETH-a-WETH"
  /\ \E i \in DOMAIN emitted :
        /\ Listed(emitted[i].tokens[1]) # {}
        /\ Listed(emitted[i].tokens[2]) = {}
        /\ emitted[i].swapPath = "WETH-a-WETH"

\* C35: once the adjacency map, the token cache and the pool cache are built,
\* no step changes them; when the run has ended they are what the loaded pool
\* and token rows made them.
C35_CachesReadOnly ==
  /\ [][Built => (adjMap' = adjMap /\ tokenCache' = tokenCache /\ pools' = pools)]_vars
  /\ [][(~Ended /\ Ended') =>
          /\ adjMap' = buildAdjacencyMap(pools', <<>>)
          /\ tokenCache' = buildTokenCache(tokens', <<>>)]_vars

C35_Witness ==
  /\ outcome = "returned"
  /\ Len(dbPaths) = Len(emitted)
  /\ adjMap # <<>>
  /\ tokenCache # <<>>
  /\ \E i \in DOMAIN emitted : \E j \in DOMAIN emitted[i].tokens :
        emitted[i].tokens[j] \notin DOMAIN tokenCache

\* C33: no persisted step row references a pool address that the pool cache
\* does not hold (the step of a missing pool is skipped).
C33_MissingPoolStepSkipped ==
  \A i \in DOMAIN dbSteps : Cached(dbSteps[i].poolAddress) # {}

\* the state of the Batched Persister in the run
Persister ==
  CASE pc \in {"start", "resolve", "init"} -> "Idle"
    [] pc = "dfs" -> "Accumulating"
    [] pc = "flush" /\ fl["main"].caller = "addPath" -> "Flushing"
    [] pc = "flush" /\ fl["main"].caller # "addPath" -> "Draining"
    [] pc = "finalize" -> "Draining"
    [] OTHER -> "Closed"

\* the moves of the persister: the chain of a run that returns, and the throw
\* that closes a run from any state in which an operation can fail
PersisterMoves ==
  {<<"Idle", "Accumulating">>, <<"Accumulating", "Flushing">>,
   <<"Flushing", "Accumulating">>, <<"Accumulating", "Draining">>,
   <<"Draining", "Closed">>, <<"Idle", "Closed">>, <<"Flushing", "Closed">>}

\* C36: when the main task and the store operations it issues are scheduled
\* fairly, every run ends: findArbitragePaths returns or throws. No dfs call
\* is made with a path of more than maxDepth edges, and the persister moves
\* Idle, Accumulating, Flushing, Accumulating, ..., Draining, Closed, a run
\* that throws going to Closed at once and a run that returns through Draining.
C36_RunEnds ==
  /\ <>Ended
  /\ [](\A k \in DOMAIN stack :
          Len(stack[k].pathPools) = k - 1 /\ Len(stack[k].pathPools) <= maxDepth)
  /\ [][Persister' # Persister => <<Persister, Persister'>> \in PersisterMoves]_vars
  /\ [][(Persister' = "Closed" /\ Persister # "Closed") =>
          (outcome' = "thrown" <=> Persister # "Draining" \/ fl["main"].pc = "rollback")]_vars
  /\ [](Ended <=> Persister = "Closed")

C36_Witness ==
  /\ Persister = "Closed"
  /\ outcome = "returned"
  /\ maxDepth = DepthBound
  /\ pathsFound = Len(emitted)
  /\ Len(dbPaths) = Len(emitted)
  /\ Len(emitted) > PATHS_BATCH_SIZE
  /\ Len(emitted) % PATHS_BATCH_SIZE # 0
  /\ \E i \in DOMAIN emitted : emitted[i].length = DepthBound

\* C37: at most one connection is open at any time, and an open connection is
\* the one the singleton holds in its field (none is left unreferenced).
C37_SingleConnection ==
  /\ Cardinality(Open) <= 1
  /\ \A h \in Open : h = connDb


\* rows of file f a reader of the loader's connection can see
RowsOfFile(f) ==
  {r \in tblToken \cup tblPool \cup ldTx.tokens \cup ldTx.pools : r.file = f}

\* every pair of file g has its pool and its two tokens in the committed tables
FileCommitted(g) ==
  \/ ~files[g].hasPairs
  \/ \A i \in 1..Len(files[g].pairs) :
       LET pair == files[g].pairs[i]
       IN /\ \E r \in tblPool : r.address = pair.id
          /\ \E r \in tblToken : r.address = pair.token0.id
          /\ \E r \in tblToken : r.address = pair.token1.id

\* C38: when a statement of a file's transaction has failed, the next step is
\* the rollback, after which the error leaves loadAllPoolData, no transaction
\* is open and no row written for that file is visible; no step removes a
\* committed row, and at the failure every earlier file is fully committed.
C38_FileAtomic ==
  [][ /\ ld.pc = "rollback" =>
           /\ ld'.pc = "failed"
           /\ ~ldTx'.open
           /\ RowsOfFile(ld.f)' = {}
      /\ tblToken \subseteq tblToken'
      /\ tblPool \subseteq tblPool'
      /\ \A r \in tblToken' \cup tblPool' : r.file < ld'.f
      /\ ld'.pc = "failed" => \A g \in 1..(ld.f - 1) : FileCommitted(g)'
    ]_vars

\* the second file failed after it had written rows, the first is committed
C38_Witness ==
  /\ ld.pc = "failed"
  /\ ld.f = 2
  /\ ld.wrote > 0
  /\ tblPool # {}
  /\ RowsOfFile(2) = {}


\* the pools the cleaning has deleted
Deleted == {CleanerPools[n] : n \in 1..Len(CleanerPools)} \ tblPool

\* the reserves fetched for a pool
Fetched(row) ==
  {cl.liquidityInfos[n] : n \in {m \in 1..Len(cl.liquidityInfos) :
                                   cl.liquidityInfos[m].poolAddress = row.address}}

\* a balance of the pool, adjusted by the decimal its token has in the token
\* table, is below the threshold that the symbols in the token table give
BelowByTokenTable(row, info) ==
  LET token0 == ReadTokenInfo(row.token0, "ok")
      token1 == ReadTokenInfo(row.token1, "ok")
      threshold == getMinBalanceThreshold(token0.symbol, token1.symbol)
  IN \/ BelowThreshold(info.token0Balance, token0.decimal, threshold)
     \/ BelowThreshold(info.token1Balance, token1.decimal, threshold)

\* a pool of another type, of a failed batch, or without reserves is kept
KeptWithoutReserves ==
  \A row \in Deleted :
    /\ IsV2(row)
    /\ row.address \notin cl.failed
    /\ Fetched(row) # {}

\* C39: a deleted pool is of type uniswapV2 or sushiswapV2, its batch did not
\* fail, its reserves were fetched, and one of its two decimal-adjusted
\* balances is below the threshold of its tokens.
C39_DeletedOnlyWhenLow ==
  /\ KeptWithoutReserves
  /\ \A row \in Deleted : \A info \in Fetched(row) : BelowByTokenTable(row, info)

====
